---------------------------- MODULE Spec2Model ----------------------------
(***************************************************************************)
(* Model of the document parser service                                    *)
(* (server/src/services/parsing/parser_service.py).                        *)
(*                                                                         *)
(* Text is modelled as a sequence of one-character strings, so that the    *)
(* string operations of the code (strip, lstrip, startswith, split, join,  *)
(* lower, slicing) are computed character by character.  An Optional[T]    *)
(* is the empty sequence (None) or the one-element sequence <<v>>.         *)
(***************************************************************************)
EXTENDS Integers, Sequences, FiniteSets, TLC

(***************************************************************************)
(* Optional values                                                         *)
(***************************************************************************)
None == <<>>

Some(v) == <<v>>

(***************************************************************************)
(* Python str operations, on sequences of characters                       *)
(***************************************************************************)
\* str.isspace() of one character: the whitespace str.strip() removes.
IsSpace(c) == c \in {" ", "\n", "\t", "\r"}

\* str.isdigit() of one character.
IsDigit(c) == c \in {"0", "1", "2", "3", "4", "5", "6", "7", "8", "9"}

RECURSIVE LStripSet(_, _)
\* s.lstrip(chars): drop the leading characters that belong to chars.
LStripSet(s, chars) ==
    IF s # <<>> /\ Head(s) \in chars THEN LStripSet(Tail(s), chars) ELSE s

RECURSIVE RStripSet(_, _)
\* s.rstrip(chars)
RStripSet(s, chars) ==
    IF s # <<>> /\ s[Len(s)] \in chars
    THEN RStripSet(SubSeq(s, 1, Len(s) - 1), chars)
    ELSE s

WhiteSpace == {" ", "\n", "\t", "\r"}

\* s.strip()
Strip(s) == RStripSet(LStripSet(s, WhiteSpace), WhiteSpace)

\* s.startswith(p)
StartsWith(s, p) == Len(s) >= Len(p) /\ SubSeq(s, 1, Len(p)) = p

\* sub in s
Contains(s, sub) ==
    \E i \in 1..(Len(s) - Len(sub) + 1) : SubSeq(s, i, i + Len(sub) - 1) = sub

\* s[:n]
Prefix(s, n) == SubSeq(s, 1, IF n < Len(s) THEN n ELSE Len(s))

\* s[n:]
DropFirst(s, n) == SubSeq(s, n + 1, Len(s))

RECURSIVE SplitFrom(_, _, _)
\* s.split(sep): cur is the segment collected so far; the separator is
\* matched left to right, without overlap.
SplitFrom(s, sep, cur) ==
    IF s = <<>> THEN <<cur>>
    ELSE IF StartsWith(s, sep)
         THEN <<cur>> \o SplitFrom(DropFirst(s, Len(sep)), sep, <<>>)
         ELSE SplitFrom(Tail(s), sep, Append(cur, Head(s)))

Split(s, sep) == SplitFrom(s, sep, <<>>)

RECURSIVE FlattenSeq(_)
\* the concatenation of a sequence of sequences (halving, to keep the
\* evaluation shallow)
FlattenSeq(ss) ==
    IF ss = <<>> THEN <<>>
    ELSE IF Len(ss) = 1 THEN ss[1]
    ELSE LET h == Len(ss) \div 2
         IN  FlattenSeq(SubSeq(ss, 1, h)) \o FlattenSeq(SubSeq(ss, h + 1, Len(ss)))

\* sep.join(parts)
Join(parts, sep) ==
    FlattenSeq([k \in 1..Len(parts) |-> IF k = 1 THEN parts[k] ELSE sep \o parts[k]])

UpperLetters ==
    <<"A", "B", "C", "D", "E", "F", "G", "H", "I", "J", "K", "L", "M",
      "N", "O", "P", "Q", "R", "S", "T", "U", "V", "W", "X", "Y", "Z">>

LowerLetters ==
    <<"a", "b", "c", "d", "e", "f", "g", "h", "i", "j", "k", "l", "m",
      "n", "o", "p", "q", "r", "s", "t", "u", "v", "w", "x", "y", "z">>

\* c.lower() of one character
LowerChar(c) ==
    IF \E i \in 1..Len(UpperLetters) : UpperLetters[i] = c
    THEN LowerLetters[CHOOSE i \in 1..Len(UpperLetters) : UpperLetters[i] = c]
    ELSE c

\* s.lower()
Lower(s) == [i \in 1..Len(s) |-> LowerChar(s[i])]

\* s.rfind('.') as a 1-based index, 0 when there is no dot
RFindDot(s) ==
    IF \E i \in 1..Len(s) : s[i] = "."
    THEN CHOOSE i \in 1..Len(s) :
            s[i] = "." /\ \A j \in (i + 1)..Len(s) : s[j] # "."
    ELSE 0

RECURSIVE SelectParts(_)
\* the components of a path: the pieces between '/', without the empty
\* ones and the '.' ones
SelectParts(parts) ==
    IF parts = <<>> THEN <<>>
    ELSE IF parts[1] = <<>> \/ parts[1] = <<".">>
         THEN SelectParts(Tail(parts))
         ELSE <<parts[1]>> \o SelectParts(Tail(parts))

\* Path(filename).name: the final path component
PathName(filename) ==
    LET parts == SelectParts(Split(filename, <<"/">>))
    IN  IF parts = <<>> THEN <<>> ELSE parts[Len(parts)]

\* Path(filename).suffix: the final component from its last dot on, when
\* that dot is neither its first nor its last character
PathSuffix(filename) ==
    LET name == PathName(filename)
        i    == RFindDot(name)
    IN  IF 1 < i /\ i < Len(name) THEN SubSeq(name, i, Len(name)) ELSE <<>>

(***************************************************************************)
(* Format detector                                                         *)
(***************************************************************************)
\* ext_map of get_format_from_filename: (extension, format tag) pairs
ext_map ==
    << << <<".", "p", "d", "f">>, "pdf" >>,
       << <<".", "d", "o", "c", "x">>, "docx" >>,
       << <<".", "p", "p", "t", "x">>, "pptx" >>,
       << <<".", "x", "l", "s", "x">>, "xlsx" >>,
       << <<".", "h", "t", "m", "l">>, "html" >>,
       << <<".", "h", "t", "m">>, "html" >>,
       << <<".", "m", "d">>, "md" >>,
       << <<".", "m", "a", "r", "k", "d", "o", "w", "n">>, "md" >>,
       << <<".", "t", "x", "t">>, "txt" >> >>

\* dict.get(key): None when the key is absent
MapGet(map, key) ==
    IF \E i \in 1..Len(map) : map[i][1] = key
    THEN Some(map[CHOOSE i \in 1..Len(map) : map[i][1] = key][2])
    ELSE None

\* A detector that looks the extension up as it is written
get_format_case_sensitive(filename) ==
    MapGet(ext_map, PathSuffix(filename))

get_format_from_filename(filename) ==
    LET ext == Lower(PathSuffix(filename))
    IN  MapGet(ext_map, ext)

(***************************************************************************)
(* Bytes and text                                                          *)
(***************************************************************************)
\* The printable ASCII characters, code 32 (space) to 126 (~), in order
\* (the double quote, the backslash and the backtick are written by name).
Printable ==
    <<" ", "!", "QUOTE", "#", "$", "%", "&", "'", "(", ")", "*", "+", ",", "-",
      ".", "/", "0", "1", "2", "3", "4", "5", "6", "7", "8", "9", ":", ";",
      "<", "=", ">", "?", "@", "A", "B", "C", "D", "E", "F", "G", "H", "I",
      "J", "K", "L", "M", "N", "O", "P", "Q", "R", "S", "T", "U", "V", "W",
      "X", "Y", "Z", "[", "BACKSLASH", "]", "^", "_", "BACKTICK", "a", "b", "c", "d", "e",
      "f", "g", "h", "i", "j", "k", "l", "m", "n", "o", "p", "q", "r", "s",
      "t", "u", "v", "w", "x", "y", "z", "{", "|", "}", "~">>

\* The replacement character U+FFFD that bytes.decode('utf-8',
\* errors='replace') puts in place of a byte that is not valid UTF-8.
ReplacementChar == "U+FFFD"

\* ord(c) of an ASCII character
Ord(c) ==
    IF c = "\n" THEN 10
    ELSE IF c = "\t" THEN 9
    ELSE IF c = "\r" THEN 13
    ELSE 31 + (CHOOSE i \in 1..Len(Printable) : Printable[i] = c)

\* chr(b) of an ASCII code (the control characters the model uses, and the
\* printable ones)
Chr(b) ==
    IF b = 10 THEN "\n"
    ELSE IF b = 9 THEN "\t"
    ELSE IF b = 13 THEN "\r"
    ELSE Printable[b - 31]

\* str.encode() of one character: its UTF-8 bytes
EncodeChar(c) == IF c = ReplacementChar THEN <<239, 191, 189>> ELSE <<Ord(c)>>

\* str.encode(): the UTF-8 bytes of a text
Encode(s) == FlattenSeq([i \in 1..Len(s) |-> EncodeChar(s[i])])

\* bytes.decode('utf-8', errors='replace'), for payloads made of ASCII
\* bytes and of bytes 0xF8..0xFF, which never occur in UTF-8: each of the
\* latter is replaced by U+FFFD.
Decode(bytes) ==
    [i \in 1..Len(bytes) |->
        IF bytes[i] < 128 THEN Chr(bytes[i]) ELSE ReplacementChar]

(***************************************************************************)
(* Document identifier                                                     *)
(***************************************************************************)
\* hasher.hexdigest()[:12] of the bytes fed to the hasher: the digest is a
\* function of the concatenated byte stream and of nothing else.
Sha256Hex12(bytes) == <<"sha256", bytes>>

\* An identifier whose hash also covers the clock second
generate_document_id_hashing_clock(content, filename, now) ==
    <<"doc", now, Sha256Hex12(content \o Encode(filename) \o <<now>>)>>

\* generate_document_id(content, filename), read at clock second now:
\* the three segments of "doc_<seconds>_<hash>" (no segment holds '_').
generate_document_id(content, filename, now) ==
    <<"doc", now, Sha256Hex12(content \o Encode(filename))>>

(***************************************************************************)
(* Canonical document model                                                *)
(***************************************************************************)
\* ContentBlock(type=..., content=..., position=..., pageNumber=...), the
\* optional fields at their defaults
ContentBlock(type, content, position, pageNumber) ==
    [type |-> type, content |-> content, pageNumber |-> pageNumber,
     position |-> position, headingLevel |-> None, listType |-> None,
     listItems |-> None, table |-> None, codeLanguage |-> None,
     image |-> None, confidence |-> None]

\* An outline item that is always placed on page 1
OutlineItemOnFirstPage(title, level, position, pageNumber) ==
    [title |-> title, level |-> level, pageNumber |-> Some(1),
     position |-> position, children |-> <<>>]

\* DocumentOutlineItem(title, level, position, pageNumber), children = []
DocumentOutlineItem(title, level, position, pageNumber) ==
    [title |-> title, level |-> level, pageNumber |-> pageNumber,
     position |-> position, children |-> <<>>]

\* ParsingWarning(code, message, severity)
ParsingWarning(code, message, severity) ==
    [code |-> code, message |-> message, pageNumber |-> None,
     position |-> None, severity |-> severity]

\* TableCell(content, row, col, isHeader), spans at their default 1
TableCell(content, row, col, isHeader) ==
    [content |-> content, row |-> row, col |-> col, rowSpan |-> 1,
     colSpan |-> 1, isHeader |-> isHeader]

\* ParsedDocument(...): parsingDurationMs (wall-clock time) is left out
ParsedDocument(documentId, filename, format, fileSize, pageCount, title, parser, blocks, fullText, outline, warnings, success) ==
    [documentId |-> documentId,
     metadata |-> [filename |-> filename, format |-> format,
                   fileSize |-> fileSize, pageCount |-> pageCount,
                   title |-> title, parser |-> parser],
     blocks |-> blocks, fullText |-> fullText, outline |-> outline,
     warnings |-> warnings, success |-> success]

(***************************************************************************)
(* Markdown normalizer                                                     *)
(***************************************************************************)
\* The locals of parse_markdown_content before the first line
MdStart ==
    [blocks |-> <<>>, position |-> 0, outline |-> <<>>, warnings |-> <<>>,
     current_paragraph |-> <<>>]

\* A flush that emits the paragraph and keeps the pending lines
MdFlushKeepingBuffer(st) ==
    IF st.current_paragraph = <<>> THEN st
    ELSE LET para_text == Strip(Join(st.current_paragraph, <<"\n">>))
         IN  IF para_text # <<>>
             THEN [st EXCEPT
                     !.blocks = Append(@, ContentBlock("paragraph", para_text,
                                                       st.position, Some(1))),
                     !.position = @ + 1]
             ELSE st

\* "Flush current paragraph" of the loop body: the pending lines joined
\* with newline and stripped become a paragraph block at the current
\* position, which then advances; the buffer is cleared.
MdFlush(st) ==
    IF st.current_paragraph = <<>> THEN st
    ELSE LET para_text == Strip(Join(st.current_paragraph, <<"\n">>))
         IN  IF para_text # <<>>
             THEN [st EXCEPT
                     !.blocks = Append(@, ContentBlock("paragraph", para_text,
                                                       st.position, Some(1))),
                     !.position = @ + 1,
                     !.current_paragraph = <<>>]
             ELSE [st EXCEPT !.current_paragraph = <<>>]

\* A heading level that is the full count of '#'
MdUncappedLevel(level) == level

\* min(level, 6)
MdCapLevel(level) == IF level < 6 THEN level ELSE 6

\* The heading branch
MdHeading(st, line) ==
    LET f            == MdFlush(st)
        level        == MdCapLevel(Len(line) - Len(LStripSet(line, {"#"})))
        heading_text == Strip(LStripSet(line, {"#"}))
    IN  [f EXCEPT
           !.blocks = Append(@, [ContentBlock("heading", heading_text,
                                              f.position, Some(1))
                                   EXCEPT !.headingLevel = Some(level)]),
           !.outline = Append(@, DocumentOutlineItem(heading_text, level,
                                                     f.position, Some(1))),
           !.position = @ + 1]

\* A fence branch that drops the language hint
MdFenceWithoutLanguage(st, line) ==
    LET f == MdFlush(st)
    IN  [f EXCEPT
           !.blocks = Append(@, ContentBlock("code", <<>>, f.position, Some(1))),
           !.position = @ + 1]

\* The fence branch: lang = line[3:].strip() or None
MdFence(st, line) ==
    LET f    == MdFlush(st)
        rest == Strip(DropFirst(line, 3))
        lang == IF rest # <<>> THEN Some(rest) ELSE None
    IN  [f EXCEPT
           !.blocks = Append(@, [ContentBlock("code", <<>>, f.position, Some(1))
                                   EXCEPT !.codeLanguage = lang]),
           !.position = @ + 1]

\* The condition of the list branch
MdIsList(line) ==
    LET s == Strip(line)
    IN  \/ StartsWith(s, <<"-", " ">>)
        \/ StartsWith(s, <<"*", " ">>)
        \/ StartsWith(s, <<"+", " ">>)
        \/ (s # <<>> /\ IsDigit(s[1]) /\ Contains(Prefix(line, 4), <<".", " ">>))

ListMarkerChars ==
    {"-", "*", "+", "0", "1", "2", "3", "4", "5", "6", "7", "8", "9", ".", " "}

\* The list branch
MdList(st, line) ==
    LET f         == MdFlush(st)
        s         == Strip(line)
        list_type == IF IsDigit(s[1]) THEN "ordered" ELSE "unordered"
        item_text == Strip(LStripSet(s, ListMarkerChars))
    IN  [f EXCEPT
           !.blocks = Append(@, [ContentBlock("list", item_text, f.position,
                                              Some(1))
                                   EXCEPT !.listType = Some(list_type),
                                          !.listItems = Some(<<item_text>>)]),
           !.position = @ + 1]

\* One iteration of the loop over the lines
MdLine(st, line) ==
    IF StartsWith(line, <<"#">>) THEN MdHeading(st, line)
    ELSE IF StartsWith(line, <<"BACKTICK", "BACKTICK", "BACKTICK">>) THEN MdFence(st, line)
    ELSE IF MdIsList(line) THEN MdList(st, line)
    ELSE IF Strip(line) # <<>>
         THEN [st EXCEPT !.current_paragraph = Append(@, line)]
    ELSE MdFlush(st)

\* "Flush remaining paragraph" after the loop: the block is appended and
\* position is not advanced.
MdFlushLast(st) ==
    IF st.current_paragraph = <<>> THEN st
    ELSE LET para_text == Strip(Join(st.current_paragraph, <<"\n">>))
         IN  IF para_text # <<>>
             THEN [st EXCEPT
                     !.blocks = Append(@, ContentBlock("paragraph", para_text,
                                                       st.position, Some(1)))]
             ELSE st

\* A return statement that reports success only when a block was produced
MdDocumentSuccessIfBlocks(st, content, filename, now) ==
    ParsedDocument(generate_document_id(Encode(content), filename, now),
                   filename, "md", Len(Encode(content)), 1, None, "native-md",
                   st.blocks, content, st.outline, st.warnings, st.blocks # <<>>)

\* The return statement of parse_markdown_content
MdDocument(st, content, filename, now) ==
    ParsedDocument(generate_document_id(Encode(content), filename, now),
                   filename, "md", Len(Encode(content)), 1, None, "native-md",
                   st.blocks, content, st.outline, st.warnings, TRUE)

RECURSIVE MdScan(_, _)
\* The loop over the lines, from state st
MdScan(st, lines) ==
    IF lines = <<>> THEN st ELSE MdScan(MdLine(st, Head(lines)), Tail(lines))

parse_markdown_content(content, filename, now) ==
    MdDocument(MdFlushLast(MdScan(MdStart, Split(content, <<"\n">>))),
               content, filename, now)

(***************************************************************************)
(* Plain-text normalizer                                                   *)
(***************************************************************************)
RECURSIVE TxtBlocks(_, _)
\* The loop of parse_txt_content over the paragraphs, from position
TxtBlocks(paragraphs, position) ==
    IF paragraphs = <<>> THEN <<>>
    ELSE LET para_text == Strip(Head(paragraphs))
         IN  IF para_text # <<>>
             THEN <<ContentBlock("paragraph", para_text, position, Some(1))>>
                  \o TxtBlocks(Tail(paragraphs), position + 1)
             ELSE TxtBlocks(Tail(paragraphs), position)

\* A plain-text normalizer that splits on the single newline
parse_txt_by_line(content, filename, now) ==
    ParsedDocument(generate_document_id(Encode(content), filename, now),
                   filename, "txt", Len(Encode(content)), 1, None, "native-txt",
                   TxtBlocks(Split(content, <<"\n">>), 0),
                   content, <<>>, <<>>, TRUE)

parse_txt_content(content, filename, now) ==
    ParsedDocument(generate_document_id(Encode(content), filename, now),
                   filename, "txt", Len(Encode(content)), 1, None, "native-txt",
                   TxtBlocks(Split(content, <<"\n", "\n">>), 0),
                   content, <<>>, <<>>, TRUE)

(***************************************************************************)
(* HTML normalizer                                                         *)
(*                                                                         *)
(* The tree BeautifulSoup builds is a node [tag, class, text, kids]: an    *)
(* element has a tag name (lower case), its class tokens and its children; *)
(* a text node has the name TextTag and its text.  The root (the soup) has *)
(* the name RootTag.                                                       *)
(***************************************************************************)
TextTag == <<"#text">>

RootTag == <<"[document]">>

TagTitle == <<"t", "i", "t", "l", "e">>

TagBody == <<"b", "o", "d", "y">>

TagP == <<"p">>

TagTable == <<"t", "a", "b", "l", "e">>

TagTr == <<"t", "r">>

TagTh == <<"t", "h">>

TagTd == <<"t", "d">>

TagPre == <<"p", "r", "e">>

TagCode == <<"c", "o", "d", "e">>

TagUl == <<"u", "l">>

TagOl == <<"o", "l">>

TagLi == <<"l", "i">>

TagDiv == <<"d", "i", "v">>

TagH(digit) == <<"h", digit>>

TextNode(text) == [tag |-> TextTag, class |-> <<>>, text |-> text, kids |-> <<>>]

Element(tag, class, kids) == [tag |-> tag, class |-> class, text |-> <<>>, kids |-> kids]

RECURSIVE Descendants(_)
\* the elements below a node, in document order
Descendants(node) ==
    LET RECURSIVE Walk(_)
        Walk(kids) ==
            IF kids = <<>> THEN <<>>
            ELSE (IF Head(kids).tag = TextTag THEN <<>> ELSE <<Head(kids)>>)
                 \o Descendants(Head(kids)) \o Walk(Tail(kids))
    IN  Walk(node.kids)

RECURSIVE Strings(_)
\* the text strings below a node, in document order
Strings(node) ==
    LET RECURSIVE Walk(_)
        Walk(kids) ==
            IF kids = <<>> THEN <<>> ELSE Strings(Head(kids)) \o Walk(Tail(kids))
    IN  IF node.tag = TextTag THEN <<node.text>> ELSE Walk(node.kids)

\* node.get_text(): the strings concatenated
GetText(node) == Join(Strings(node), <<>>)

\* node.find_all(tags): the descendants with one of the tags
FindAll(node, tags) ==
    LET Match(e) == e.tag \in tags IN SelectSeq(Descendants(node), Match)

\* node.find_all(tag, recursive=False): the children with the tag
FindChildren(node, tag) ==
    LET Match(e) == e.tag = tag IN SelectSeq(node.kids, Match)

\* node.find(tag): the first descendant with the tag, None when there is none
Find(node, tag) ==
    LET found == FindAll(node, {tag})
    IN  IF found = <<>> THEN None ELSE Some(found[1])

\* The tag names body.find_all is asked for
HtmlQueryTags ==
    {TagH("1"), TagH("2"), TagH("3"), TagH("4"), TagH("5"), TagH("6"),
     TagP, TagTable, TagPre, TagCode, TagUl, TagOl}

\* int(c) of a digit character
DigitValue(c) == Ord(c) - 48

\* A header test that looks at the tag alone
HtmlIsHeaderByTag(col, row_idx) == col.tag = TagTh

\* is_header of the cell col of row row_idx
HtmlIsHeader(col, row_idx) == col.tag = TagTh \/ row_idx = 0

\* The cells the two nested loops over rows and columns append
HtmlCells(rows) ==
    FlattenSeq([r \in 1..Len(rows) |->
        LET cols == FindAll(rows[r], {TagTh, TagTd})
        IN  [c \in 1..Len(cols) |->
                TableCell(Strip(GetText(cols[c])), r - 1, c - 1,
                          HtmlIsHeader(cols[c], r - 1))]])

\* headers: the texts of the cells with is_header and row_idx == 0
HtmlHeaders(cells) ==
    LET InHeader(c) == c.isHeader /\ c.row = 0
        hs == SelectSeq(cells, InHeader)
    IN  [k \in 1..Len(hs) |-> hs[k].content]

\* '| ' + ' | '.join(parts) + ' |'
MdRow(parts) == <<"|", " ">> \o Join(parts, <<" ", "|", " ">>) \o <<" ", "|">>

Dashes == <<"-", "-", "-">>

\* "Generate markdown" of the table branch
HtmlTableMarkdown(rows, headers, cells) ==
    LET head == IF headers # <<>>
                THEN <<MdRow(headers), MdRow([k \in 1..Len(headers) |-> Dashes])>>
                ELSE <<>>
        first == IF headers # <<>> THEN 1 ELSE 0
        RowLine(row_idx) ==
            LET InRow(c) == c.row = row_idx
                cs == SelectSeq(cells, InRow)
            IN  [k \in 1..Len(cs) |-> cs[k].content]
        body == [k \in 1..(Len(rows) - first) |-> RowLine(first + k - 1)]
        NonEmpty(row_cells) == row_cells # <<>>
        kept == SelectSeq(body, NonEmpty)
    IN  Join(head \o [k \in 1..Len(kept) |-> MdRow(kept[k])], <<"\n">>)

\* TableStructure(...) of the table branch, from the locals of the branch
HtmlTableOf(rows, headers, cells) ==
    [rows |-> Len(rows),
     cols |-> IF Len(headers) # 0 THEN Len(headers) ELSE Len(cells) \div Len(rows),
     headers |-> headers,
     cells |-> cells,
     markdown |-> HtmlTableMarkdown(rows, headers, cells),
     hasHeader |-> headers # <<>>]

\* The table the two loops over the rows build: the cells, then the headers
HtmlTableFrom(rows, cells) == HtmlTableOf(rows, HtmlHeaders(cells), cells)

HtmlTableStructure(rows) == HtmlTableFrom(rows, HtmlCells(rows))

\* The locals of parse_html_content before the import
HtmlStart == [blocks |-> <<>>, position |-> 0, outline |-> <<>>, warnings |-> <<>>]

HtmlAppend(st, block) ==
    [st EXCEPT !.blocks = Append(@, block), !.position = @ + 1]

\* blocks.append(ContentBlock(type='table', ...)) for the table t
HtmlTableBlock(st, t) ==
    HtmlAppend(st, [ContentBlock("table", t.markdown, st.position, Some(1))
                      EXCEPT !.table = Some(t)])

\* blocks.append(ContentBlock(type='list', ...)) for the items
HtmlListBlock(st, tag_name, items) ==
    IF items # <<>>
    THEN HtmlAppend(st, [ContentBlock("list", Join(items, <<"\n">>),
                                      st.position, Some(1))
            EXCEPT !.listType = Some(IF tag_name = TagOl THEN "ordered"
                                     ELSE "unordered"),
                   !.listItems = Some(items)])
    ELSE st

\* The items of a list: the texts of its direct li children
HtmlItems(lis) == [k \in 1..Len(lis) |-> Strip(GetText(lis[k]))]

\* The branches of the loop body, for an element with name tag_name and
\* stripped text text
HtmlBranch(st, element, tag_name, text) ==
    IF StartsWith(tag_name, <<"h">>) /\ Len(tag_name) = 2 THEN
        IF text # <<>>
        THEN [HtmlAppend(st, [ContentBlock("heading", text, st.position, Some(1))
                                EXCEPT !.headingLevel = Some(DigitValue(tag_name[2]))])
                EXCEPT !.outline = Append(@, DocumentOutlineItem(
                            text, DigitValue(tag_name[2]), st.position, Some(1)))]
        ELSE st
    ELSE IF tag_name = TagP THEN
        IF text # <<>>
        THEN HtmlAppend(st, ContentBlock("paragraph", text, st.position, Some(1)))
        ELSE st
    ELSE IF tag_name \in {TagPre, TagCode} THEN
        IF text # <<>>
        THEN HtmlAppend(st, [ContentBlock("code", text, st.position, Some(1))
                               EXCEPT !.codeLanguage =
                                   IF element.class # <<>> THEN Some(element.class[1])
                                   ELSE None])
        ELSE st
    ELSE IF tag_name \in {TagUl, TagOl} THEN
        HtmlListBlock(st, tag_name, HtmlItems(FindChildren(element, TagLi)))
    ELSE IF tag_name = TagTable THEN
        IF FindAll(element, {TagTr}) # <<>>
        THEN HtmlTableBlock(st, HtmlTableStructure(FindAll(element, {TagTr})))
        ELSE st
    ELSE st

\* One iteration of the loop over body.find_all([...])
HtmlElement(st, element) ==
    HtmlBranch(st, element, element.tag, Strip(GetText(element)))

RECURSIVE HtmlWalk(_, _)
\* The loop over the elements, from state st
HtmlWalk(st, elements) ==
    IF elements = <<>> THEN st
    ELSE HtmlWalk(HtmlElement(st, Head(elements)), Tail(elements))

\* title_tag.get_text().strip() if there is a title tag
HtmlTitle(title_tag) ==
    IF title_tag # None THEN Some(Strip(GetText(title_tag[1]))) ELSE None

\* soup.find('body') or soup
HtmlBody(soup, found) == IF found # None THEN found[1] ELSE soup

\* The body of the try block, given the tree BeautifulSoup built
HtmlTry(soup) ==
    [st |-> HtmlWalk(HtmlStart, FindAll(HtmlBody(soup, Find(soup, TagBody)),
                                        HtmlQueryTags)),
     title |-> HtmlTitle(Find(soup, TagTitle)),
     full_text |-> Strip(Join(Strings(soup), <<"\n">>))]

\* An except ImportError block whose warning has severity warning
HtmlImportWarning(content) ==
    [st |-> [HtmlStart EXCEPT !.warnings = Append(@, ParsingWarning(
                 "BEAUTIFULSOUP_MISSING",
                 "BeautifulSoup not installed. Install with: pip install beautifulsoup4",
                 "warning"))],
     title |-> None,
     full_text |-> content]

\* The except ImportError block
HtmlImportError(content) ==
    [st |-> [HtmlStart EXCEPT !.warnings = Append(@, ParsingWarning(
                 "BEAUTIFULSOUP_MISSING",
                 "BeautifulSoup not installed. Install with: pip install beautifulsoup4",
                 "error"))],
     title |-> None,
     full_text |-> content]

\* success=len(warnings) == 0 or all(w.severity != 'error' for w in warnings)
HtmlSuccess(warnings) ==
    Len(warnings) = 0 \/ \A k \in 1..Len(warnings) : warnings[k].severity # "error"

\* The return statement of parse_html_content, r being what the try
\* statement left: the locals st, the title and the full text
HtmlDocument(r, content, filename, now) ==
    ParsedDocument(generate_document_id(Encode(content), filename, now),
                   filename, "html", Len(Encode(content)), 1, r.title,
                   "native-html", r.st.blocks, r.full_text, r.st.outline,
                   r.st.warnings, HtmlSuccess(r.st.warnings))

\* parse_html_content: bs4 tells whether the import of BeautifulSoup
\* succeeds, soup is the tree it builds from content
parse_html_content(content, filename, now, bs4, soup) ==
    HtmlDocument(IF bs4 THEN HtmlTry(soup) ELSE HtmlImportError(content),
                 content, filename, now)

(***************************************************************************)
(* Delegated normalizer (Docling)                                          *)
(*                                                                         *)
(* What the backend hands back is a document [pages, title, texts,         *)
(* tables, markdown]: pages is the page count (None when the document has  *)
(* no pages attribute), texts the text items [text, label, page_no],       *)
(* tables the table objects, markdown the backend's own markdown export    *)
(* (None when it offers none).  A table object is [kind, columns, rows,    *)
(* page_no, message]: kind "frame" exports to a data frame with the given  *)
(* columns and rows under the default index 0..n-1, kind "raises" raises   *)
(* message when it is exported, kind "noexport" has no export method.      *)
(***************************************************************************)
\* The keywords the label is searched for
KwHeading == <<"h", "e", "a", "d", "i", "n", "g">>

KwTitle == <<"t", "i", "t", "l", "e">>

KwList == <<"l", "i", "s", "t">>

KwCode == <<"c", "o", "d", "e">>

KwCaption == <<"c", "a", "p", "t", "i", "o", "n">>

KwFooter == <<"f", "o", "o", "t", "e", "r">>

KwHeader == <<"h", "e", "a", "d", "e", "r">>

FAILED_PREFIX == <<"F", "a", "i", "l", "e", "d", " ", "t", "o", " ", "e", "x", "t", "r", "a", "c", "t", " ", "t", "a", "b", "l", "e", " ">>

\* int(row_idx) + 1: the row number of the data row with index label row_idx
DlRowNumber(row_idx) == row_idx + 1

RECURSIVE Str(_)
\* str(n) of a natural number
Str(n) == IF n < 10 THEN <<Chr(48 + n)>> ELSE Str(n \div 10) \o <<Chr(48 + (n % 10))>>

\* The locals of parse_with_docling before the temporary file is written
DlStart == [blocks |-> <<>>, position |-> 0, outline |-> <<>>, warnings |-> <<>>]

\* item.text.strip() raises when the item's text is None
DlItemRaises(item) == item.text = None

DlItemMessage == "'NoneType' object has no attribute 'strip'"

\* The heading level of a label that holds 'heading' or 'title'
DlHeadingLevel(label) ==
    IF Contains(label, <<"h", "1">>) THEN 1
    ELSE IF Contains(label, <<"h", "2">>) THEN 2
    ELSE IF Contains(label, <<"h", "3">>) THEN 3
    ELSE IF Contains(label, <<"h", "4">>) THEN 4
    ELSE IF Contains(label, <<"h", "5">>) THEN 5
    ELSE IF Contains(label, <<"h", "6">>) THEN 6
    ELSE IF Contains(label, KwTitle) THEN 1
    ELSE 2

\* The block type the chain of label tests chooses
DlBlockType(label) ==
    IF Contains(label, KwHeading) \/ Contains(label, KwTitle) THEN "heading"
    ELSE IF Contains(label, KwList) THEN "list"
    ELSE IF Contains(label, KwCode) THEN "code"
    ELSE IF Contains(label, KwCaption) THEN "caption"
    ELSE IF Contains(label, KwFooter) THEN "footer"
    ELSE IF Contains(label, KwHeader) THEN "header"
    ELSE "paragraph"

\* An iteration that lets an item without text take a position
DlItemCountingEmpty(st, item) ==
    LET text == Strip(item.text[1])
        label == Lower(item.label)
        page_num == IF item.page_no # None THEN item.page_no ELSE Some(1)
        type == DlBlockType(label)
        base == ContentBlock(type, text, st.position, page_num)
        block == IF type = "heading"
                 THEN [base EXCEPT !.headingLevel = Some(DlHeadingLevel(label))]
                 ELSE IF type = "list"
                 THEN [base EXCEPT !.listType = Some("unordered"),
                                   !.listItems = Some(<<text>>)]
                 ELSE base
    IN  IF text = <<>> THEN [st EXCEPT !.position = @ + 1]
        ELSE [st EXCEPT
                !.blocks = Append(@, block),
                !.outline = IF type = "heading"
                            THEN Append(@, DocumentOutlineItem(
                                     text, DlHeadingLevel(label), st.position, page_num))
                            ELSE @,
                !.position = @ + 1]

\* One iteration of the loop over doc.texts, for an item whose text is a
\* string
DlItem(st, item) ==
    LET text == Strip(item.text[1])
        label == Lower(item.label)
        page_num == IF item.page_no # None THEN item.page_no ELSE Some(1)
        type == DlBlockType(label)
        base == ContentBlock(type, text, st.position, page_num)
        block == IF type = "heading"
                 THEN [base EXCEPT !.headingLevel = Some(DlHeadingLevel(label))]
                 ELSE IF type = "list"
                 THEN [base EXCEPT !.listType = Some("unordered"),
                                   !.listItems = Some(<<text>>)]
                 ELSE base
    IN  IF text = <<>> THEN st
        ELSE [st EXCEPT
                !.blocks = Append(@, block),
                !.outline = IF type = "heading"
                            THEN Append(@, DocumentOutlineItem(
                                     text, DlHeadingLevel(label), st.position, page_num))
                            ELSE @,
                !.position = @ + 1]

\* The cells of a data frame: the header row, then the data rows, the row
\* of index label k at row int(k) + 1
DlCells(table) ==
    [c \in 1..Len(table.columns) |-> TableCell(table.columns[c], 0, c - 1, TRUE)]
    \o FlattenSeq([r \in 1..Len(table.rows) |->
          [c \in 1..Len(table.rows[r]) |->
              TableCell(table.rows[r][c], DlRowNumber(r - 1), c - 1, FALSE)]])

\* "Generate markdown" of the table loop
DlTableMarkdown(table) ==
    Join(<<MdRow(table.columns),
           MdRow([k \in 1..Len(table.columns) |-> Dashes])>>
         \o [r \in 1..Len(table.rows) |-> MdRow(table.rows[r])],
         <<"\n">>)

\* TableStructure(...) of the table loop
DlTableStructure(table) ==
    [rows |-> Len(table.rows) + 1,
     cols |-> Len(table.columns),
     headers |-> table.columns,
     cells |-> DlCells(table),
     markdown |-> DlTableMarkdown(table),
     hasHeader |-> TRUE]

\* f'Failed to extract table {table_idx}: {str(e)}'
DlTableMessage(table_idx, e) ==
    FAILED_PREFIX \o Str(table_idx) \o <<":", " ">> \o e

\* An except block that also uses up a position
DlTableFailedSkipping(st, table_idx, e) ==
    [st EXCEPT !.warnings = Append(@, ParsingWarning(
                   "TABLE_EXTRACTION_FAILED", DlTableMessage(table_idx, e), "warning")),
               !.position = @ + 1]

\* The except block of the table loop
DlTableFailed(st, table_idx, e) ==
    [st EXCEPT !.warnings = Append(@, ParsingWarning(
                   "TABLE_EXTRACTION_FAILED", DlTableMessage(table_idx, e), "warning"))]

\* One iteration of the loop over doc.tables (table_idx counts from 0)
DlTable(st, table_idx, table) ==
    IF table.kind = "raises" THEN DlTableFailed(st, table_idx, table.message)
    ELSE IF table.kind = "noexport" THEN st
    ELSE LET t == DlTableStructure(table)
             page == IF table.page_no # None THEN table.page_no ELSE Some(1)
         IN  [st EXCEPT
                !.blocks = Append(@, [ContentBlock("table", t.markdown,
                                                   st.position, page)
                                        EXCEPT !.table = Some(t)]),
                !.position = @ + 1]

RECURSIVE DlTexts(_, _)
\* The loop over doc.texts, for items that do not raise
DlTexts(st, items) ==
    IF items = <<>> THEN st ELSE DlTexts(DlItem(st, Head(items)), Tail(items))

RECURSIVE DlTables(_, _, _)
\* The loop over enumerate(doc.tables), from index table_idx
DlTables(st, table_idx, tables) ==
    IF tables = <<>> THEN st
    ELSE DlTables(DlTable(st, table_idx, Head(tables)), table_idx + 1, Tail(tables))

\* format_map.get(file_ext, 'pdf')
format_map ==
    << << <<".", "p", "d", "f">>, "pdf" >>,
       << <<".", "d", "o", "c", "x">>, "docx" >>,
       << <<".", "p", "p", "t", "x">>, "pptx" >>,
       << <<".", "x", "l", "s", "x">>, "xlsx" >> >>

DlDetectedFormat(file_ext) ==
    IF MapGet(format_map, file_ext) # None THEN MapGet(format_map, file_ext)[1]
    ELSE "pdf"

\* "Get full text"
DlFullText(doc, st) ==
    IF doc.markdown # None THEN doc.markdown[1]
    ELSE Join([k \in 1..Len(st.blocks) |-> st.blocks[k].content], <<"\n">>)

\* page_count = len(doc.pages) if hasattr(doc, 'pages') and doc.pages else 1
DlPageCount(doc) == IF doc.pages # None /\ doc.pages[1] # 0 THEN doc.pages[1] ELSE 1

\* The return statement of parse_with_docling
DlDocument(st, doc, file_content, filename, now) ==
    ParsedDocument(generate_document_id(file_content, filename, now),
                   filename, DlDetectedFormat(Lower(PathSuffix(filename))),
                   Len(file_content), DlPageCount(doc), doc.title, "docling",
                   st.blocks, DlFullText(doc, st), st.outline, st.warnings, TRUE)

(***************************************************************************)
(* Base64 payloads                                                         *)
(*                                                                         *)
(* A payload is [data, groups]: the characters data followed by groups     *)
(* repetitions of "AAAA" (which decode to three zero bytes each), so that  *)
(* a payload above the size limit can be written down.                     *)
(***************************************************************************)
B64Alphabet ==
    UpperLetters \o LowerLetters
    \o <<"0", "1", "2", "3", "4", "5", "6", "7", "8", "9", "+", "/">>

IsB64Char(c) == \E k \in 1..64 : B64Alphabet[k] = c

\* the six-bit value of a character of the alphabet
B64Value(c) == (CHOOSE k \in 1..64 : B64Alphabet[k] = c) - 1

\* The decoder's state before the first character
B64Start == [quad_pos |-> 0, leftchar |-> 0, pads |-> 0, out |-> <<>>, done |-> FALSE]

\* One character of binascii.a2b_base64 (not strict): '=' counts as
\* padding and ends the decoding once a quad is complete, a character
\* outside the alphabet is skipped, any other character adds six bits.
B64Char(d, c) ==
    IF d.done THEN d
    ELSE IF c = "=" THEN
        IF d.quad_pos >= 2 /\ d.quad_pos + d.pads + 1 >= 4
        THEN [d EXCEPT !.done = TRUE, !.pads = @ + 1]
        ELSE IF d.quad_pos >= 2 THEN [d EXCEPT !.pads = @ + 1] ELSE d
    ELSE IF ~IsB64Char(c) THEN d
    ELSE LET v == B64Value(c)
         IN  CASE d.quad_pos = 0 ->
                    [d EXCEPT !.quad_pos = 1, !.leftchar = v, !.pads = 0]
               [] d.quad_pos = 1 ->
                    [d EXCEPT !.quad_pos = 2, !.pads = 0,
                              !.out = Append(@, ((d.leftchar * 4) + (v \div 16)) % 256),
                              !.leftchar = v % 16]
               [] d.quad_pos = 2 ->
                    [d EXCEPT !.quad_pos = 3, !.pads = 0,
                              !.out = Append(@, ((d.leftchar * 16) + (v \div 4)) % 256),
                              !.leftchar = v % 4]
               [] d.quad_pos = 3 ->
                    [d EXCEPT !.quad_pos = 0, !.pads = 0,
                              !.out = Append(@, ((d.leftchar * 64) + v) % 256),
                              !.leftchar = 0]

RECURSIVE B64Scan(_, _)
B64Scan(d, data) == IF data = <<>> THEN d ELSE B64Scan(B64Char(d, Head(data)), Tail(data))

\* Whether base64.b64decode(payload) raises: decoding ends inside a quad.
\* The "AAAA" groups leave the position in the quad as the data left it.
B64Raises(payload) ==
    LET d == B64Scan(B64Start, payload.data) IN ~d.done /\ d.quad_pos # 0

\* str(e) of the exception b64decode raises
B64Message(payload) ==
    IF B64Scan(B64Start, payload.data).quad_pos = 1
    THEN "Invalid base64-encoded string: number of data characters cannot be 1 more than a multiple of 4"
    ELSE "Incorrect padding"

\* len(base64.b64decode(payload)), when it does not raise
B64DecodedLen(payload) ==
    LET d == B64Scan(B64Start, payload.data)
    IN  IF d.done THEN Len(d.out) ELSE Len(d.out) + (3 * payload.groups)

\* base64.b64decode(payload), when it does not raise
B64Decode(payload) ==
    LET d == B64Scan(B64Start, payload.data)
    IN  IF d.done THEN d.out ELSE d.out \o [k \in 1..(3 * payload.groups) |-> 0]

\* base64.b64encode(bytes), as a client computes it
B64Encode(bytes) ==
    LET n == Len(bytes)
        Byte(k) == IF k <= n THEN bytes[k] ELSE 0
        Quad(g) ==
            LET b1 == Byte((3 * g) - 2)
                b2 == Byte((3 * g) - 1)
                b3 == Byte(3 * g)
            IN  << B64Alphabet[(b1 \div 4) + 1],
                   B64Alphabet[((b1 % 4) * 16) + (b2 \div 16) + 1],
                   IF (3 * g) - 1 <= n THEN B64Alphabet[((b2 % 16) * 4) + (b3 \div 64) + 1]
                   ELSE "=",
                   IF 3 * g <= n THEN B64Alphabet[(b3 % 64) + 1] ELSE "=" >>
    IN  FlattenSeq([g \in 1..((n + 2) \div 3) |-> Quad(g)])

(***************************************************************************)
(* State                                                                   *)
(***************************************************************************)
VARIABLES
    DOCLING_AVAILABLE,  \* whether the import of the docling package succeeded
    converter,          \* the global converter instance (None or Some)
    phase,              \* "startup" until lifespan has run, then "serving"
    bs4_installed,      \* whether the import of bs4 succeeds
    clock,              \* the clock, in seconds
    inbox,              \* the requests on their way to the service
    log,                \* the requests handled so far, with what they ended in
    tmp_files,          \* the temporary files that exist in the file system
    n_call,     \* the normalizer call under way: function, arguments, and
                \* what its environment will do
    n_pc,       \* the position of that call in the function's code
    n_loc,      \* the locals of the call
    n_ret,      \* the value the call returned (None until it returns)
    n_exc,      \* the message of the exception the call raised (None if none)
    n_files     \* the temporary files that exist in the file system

nvars == <<n_call, n_pc, n_loc, n_ret, n_exc, n_files>>

svars == <<DOCLING_AVAILABLE, converter, phase, bs4_installed, clock, inbox, log, tmp_files>>

vars == <<DOCLING_AVAILABLE, converter, phase, bs4_installed, clock, inbox, log, tmp_files,
          n_call, n_pc, n_loc, n_ret, n_exc, n_files>>

(***************************************************************************)
(* Bounds and inputs                                                       *)
(***************************************************************************)
\* the sequences over S of length lo..hi
SeqsOf(S, lo, hi) == UNION {[1..k -> S] : k \in lo..hi}

\* the longest Markdown document, in lines
MaxMdLines == 3

\* the clock seconds a call may read
MaxClock == 2

ClockSeconds == 1..MaxClock

\* the lines Markdown documents are made of: empty, blank, headings of
\* level 1 and of seven '#', fences without and with a language, list
\* items (unordered, ordered), and text
MdLineSet ==
    { <<>>,
      <<" ">>,
      <<"#", " ", "a">>,
      <<"#", "#", "#", "#", "#", "#", "#", "b">>,
      <<"BACKTICK", "BACKTICK", "BACKTICK">>,
      <<"BACKTICK", "BACKTICK", "BACKTICK", "p", "y">>,
      <<"-", " ", "c">>,
      <<"1", ".", " ", "d">>,
      <<"e">>,
      <<" ", "f", " ">> }

MdContents == {Join(ls, <<"\n">>) : ls \in SeqsOf(MdLineSet, 1, MaxMdLines)}

MdFilename == <<"a", ".", "m", "d">>

\* the longest plain text, in characters
MaxTxtLen == 6

TxtContents == SeqsOf({"a", " ", "\n"}, 0, MaxTxtLen)

TxtFilename == <<"a", ".", "t", "x", "t">>

\* the most cells of a table row, the most rows of a table, and the most
\* elements of an HTML body
MaxHtmlCols == 2

MaxHtmlRows == 2

MaxHtmlElems == 2

HtmlCellSet ==
    { Element(TagTh, <<>>, <<TextNode(<<"A">>)>>),
      Element(TagTd, <<>>, <<TextNode(<<" ", "1">>)>>) }

HtmlRowSet ==
    {Element(TagTr, <<>>, cells) : cells \in SeqsOf(HtmlCellSet, 0, MaxHtmlCols)}

HtmlTableSet ==
    {Element(TagTable, <<>>, rows) : rows \in SeqsOf(HtmlRowSet, 0, MaxHtmlRows)}

\* a table whose only cell holds another table
HtmlNestedTable ==
    Element(TagTable, <<>>, <<
        Element(TagTr, <<>>, <<
            Element(TagTd, <<>>, <<
                TextNode(<<"x">>),
                Element(TagTable, <<>>, <<
                    Element(TagTr, <<>>, <<
                        Element(TagTh, <<>>, <<TextNode(<<"y">>)>>) >>) >>) >>) >>) >>)

\* the elements HTML bodies are made of: headings (one of them empty), a
\* paragraph, a blank paragraph, code inside pre with a class, lists with
\* direct and nested items, a paragraph inside a div, and tables
HtmlElemSet ==
    { Element(TagH("1"), <<>>, <<TextNode(<<"T">>)>>),
      Element(TagH("3"), <<>>, <<TextNode(<<" ">>)>>),
      Element(TagH("6"), <<>>, <<TextNode(<<"S">>)>>),
      Element(TagP, <<>>, <<TextNode(<<"p", "\n">>)>>),
      Element(TagP, <<>>, <<>>),
      Element(TagPre, <<>>, <<Element(TagCode, <<<<"p", "y">>>>, <<TextNode(<<"c">>)>>)>>),
      Element(TagUl, <<>>, <<
          Element(TagLi, <<>>, <<TextNode(<<"i">>)>>),
          Element(TagLi, <<>>, <<
              TextNode(<<"j">>),
              Element(TagOl, <<>>, <<Element(TagLi, <<>>, <<TextNode(<<"k">>)>>)>>) >>) >>),
      Element(TagDiv, <<>>, <<Element(TagP, <<>>, <<TextNode(<<"d">>)>>)>>),
      Element(TagTable, <<>>, <<
          Element(TagTr, <<>>, <<
              Element(TagTh, <<>>, <<TextNode(<<"A">>)>>),
              Element(TagTh, <<>>, <<TextNode(<<"B">>)>>) >>),
          Element(TagTr, <<>>, <<
              Element(TagTd, <<>>, <<TextNode(<<"1">>)>>),
              Element(TagTd, <<>>, <<TextNode(<<"2">>)>>) >>) >>),
      HtmlNestedTable }

\* the trees: bodies of a few elements, bare or under title and body, and
\* bodies of one table
HtmlSoups ==
    {Element(RootTag, <<>>, kids) : kids \in SeqsOf(HtmlElemSet, 0, MaxHtmlElems)}
    \cup {Element(RootTag, <<>>, <<
               Element(TagTitle, <<>>, <<TextNode(<<" ", "t">>)>>),
               Element(TagBody, <<>>, kids) >>) :
           kids \in SeqsOf(HtmlElemSet, 0, 1)}
    \cup {Element(RootTag, <<>>, <<t>>) : t \in HtmlTableSet}

RECURSIVE Render(_)
\* the markup of a tree: the raw input BeautifulSoup builds the tree from
Render(node) ==
    LET RECURSIVE Kids(_)
        Kids(kids) == IF kids = <<>> THEN <<>> ELSE Render(Head(kids)) \o Kids(Tail(kids))
        attr == IF node.class = <<>> THEN <<>>
                ELSE <<" ", "c", "l", "a", "s", "s", "=", "'">>
                     \o Join(node.class, <<" ">>) \o <<"'">>
    IN  IF node.tag = TextTag THEN node.text
        ELSE IF node.tag = RootTag THEN Kids(node.kids)
        ELSE <<"<">> \o node.tag \o attr \o <<">">> \o Kids(node.kids)
             \o <<"<", "/">> \o node.tag \o <<">">>

HtmlFilename == <<"a", ".", "h", "t", "m", "l">>

\* the most text items and the most table objects of a backend document
MaxDlTexts == 2

MaxDlTables == 2

DlTextItem(text, label, page_no) == [text |-> text, label |-> label, page_no |-> page_no]

\* text items of every block type
DlLabelledItems ==
    { DlTextItem(Some(<<"T">>), <<"t", "i", "t", "l", "e">>, Some(1)),
      DlTextItem(Some(<<"H">>), <<"H", "e", "a", "d", "i", "n", "g", "_", "h", "3">>, Some(2)),
      DlTextItem(Some(<<"S">>), <<"s", "e", "c", "t", "i", "o", "n", "_", "h", "e", "a", "d", "e", "r">>, Some(2)),
      DlTextItem(Some(<<"l">>), <<"l", "i", "s", "t", "_", "i", "t", "e", "m">>, None),
      DlTextItem(Some(<<"c">>), <<"c", "o", "d", "e">>, Some(1)),
      DlTextItem(Some(<<"n">>), <<"c", "a", "p", "t", "i", "o", "n">>, Some(1)),
      DlTextItem(Some(<<"f">>), <<"p", "a", "g", "e", "_", "f", "o", "o", "t", "e", "r">>, Some(3)),
      DlTextItem(Some(<<"L">>), <<"l", "i", "s", "t", "_", "c", "a", "p", "t", "i", "o", "n">>, Some(1)),
      DlTextItem(Some(<<"p">>), <<"t", "e", "x", "t">>, Some(1)) }

\* the text items of documents with tables: a heading, a paragraph, an
\* item that is empty once stripped, and an item whose text is None
DlPlainItems ==
    { DlTextItem(Some(<<"T">>), <<"t", "i", "t", "l", "e">>, Some(1)),
      DlTextItem(Some(<<"p", " ">>), <<"t", "e", "x", "t">>, None),
      DlTextItem(Some(<<" ">>), <<"t", "e", "x", "t">>, Some(1)),
      DlTextItem(None, <<"t", "e", "x", "t">>, Some(1)) }

DlFrame(columns, rows, page_no) ==
    [kind |-> "frame", columns |-> columns, rows |-> rows, page_no |-> page_no,
     message |-> <<>>]

\* table objects: two frames, one whose export raises, one without export
DlTableSet ==
    { DlFrame(<<<<"A">>, <<"B">>>>, <<<<<<"1">>, <<"2">>>>>>, Some(3)),
      DlFrame(<<<<"C">>>>, <<<<<<"3">>>>, <<<<"4">>>>>>, None),
      [kind |-> "raises", columns |-> <<>>, rows |-> <<>>, page_no |-> Some(1),
       message |-> <<"b", "a", "d">>],
      [kind |-> "noexport", columns |-> <<>>, rows |-> <<>>, page_no |-> None,
       message |-> <<>>] }

DlDoc(texts, tables, markdown) ==
    [pages |-> Some(3), title |-> Some(<<"D">>), texts |-> texts, tables |-> tables,
     markdown |-> markdown]

\* the backend documents: text items of every type without tables, and
\* plain text items with tables
DlDocs ==
    {DlDoc(texts, <<>>, None) : texts \in SeqsOf(DlLabelledItems, 0, MaxDlTexts)}
    \cup {DlDoc(texts, tables, Some(<<"m">>)) :
            texts \in SeqsOf(DlPlainItems, 0, MaxDlTexts),
            tables \in SeqsOf(DlTableSet, 0, MaxDlTables)}

DlFilename == <<"r", ".", "P", "D", "F">>

\* the bytes "%PDF"
DlFileContent == <<37, 80, 68, 70>>

\* the messages of the exceptions the environment raises
ConvertMessage == <<"c", "o", "n", "v">>

WriteMessage == <<"d", "i", "s", "k">>

(***************************************************************************)
(* Delegated normalizer, whole call                                        *)
(***************************************************************************)
\* tempfile.NamedTemporaryFile(suffix=file_ext, delete=False): a name no
\* existing file has
TmpPath(files, file_ext) ==
    [id |-> CHOOSE k \in 0..Cardinality(files) :
                /\ \A f \in files : f.id # k
                /\ \A j \in 0..(k - 1) : \E f \in files : f.id = j,
     suffix |-> file_ext]

\* What a call leaves behind: it raised message, or it returned doc; files
\* are the temporary files that exist afterwards.
Raised(message, files) ==
    [raised |-> TRUE, message |-> message, doc |-> None, files |-> files]

ReturnedDoc(doc, files) ==
    [raised |-> FALSE, message |-> None, doc |-> Some(doc), files |-> files]

\* The finally block of parse_with_docling: os.unlink(tmp_path)
DlCleanup(files, tmp_path) == files \ {tmp_path}

\* The blocks, outline and warnings parse_with_docling builds from the
\* backend's document
DlProcess(doc, options) ==
    LET texts == DlTexts(DlStart, doc.texts)
    IN  IF options.extractTables THEN DlTables(texts, 0, doc.tables) ELSE texts

\* parse_with_docling(file_content, filename, options) with the files that
\* exist when it is called.  available: DOCLING_AVAILABLE and a converter;
\* backend: whether writing the temporary file fails, whether
\* converter.convert raises, and the document it returns.
parse_with_docling(file_content, filename, options, now, available, backend, files) ==
    LET file_ext == Lower(PathSuffix(filename))
        tmp_path == TmpPath(files, file_ext)
        doc      == backend.doc
    IN  IF ~available THEN Raised("Docling converter not available", files)
        ELSE IF backend.write_fails THEN Raised(WriteMessage, files \cup {tmp_path})
        ELSE IF backend.convert_fails
             THEN Raised(ConvertMessage, DlCleanup(files \cup {tmp_path}, tmp_path))
        ELSE IF \E k \in 1..Len(doc.texts) : DlItemRaises(doc.texts[k])
             THEN Raised(DlItemMessage, DlCleanup(files \cup {tmp_path}, tmp_path))
        ELSE ReturnedDoc(DlDocument(DlProcess(doc, options), doc, file_content,
                                    filename, now),
                         DlCleanup(files \cup {tmp_path}, tmp_path))

(***************************************************************************)
(* Dispatch layer                                                          *)
(***************************************************************************)
\* MAX_FILE_SIZE = 150 * 1024 * 1024
MAX_FILE_SIZE == 157286400

SUPPORTED_FORMATS == <<"pdf", "docx", "pptx", "xlsx", "html", "md", "txt">>

\* raise HTTPException(status_code, detail): the request ends in a
\* transport-level error
HTTPException(status_code, detail, invoked, files) ==
    [kind |-> "http_error", status_code |-> status_code, detail |-> detail,
     success |-> FALSE, document |-> None, error |-> None,
     invoked |-> invoked, files |-> files]

\* return ParseResponse(...): the request ends in a response envelope
ParseResponse(success, document, error, invoked, files) ==
    [kind |-> "response", status_code |-> 200, detail |-> None,
     success |-> success, document |-> document, error |-> error,
     invoked |-> invoked, files |-> files]

\* BeautifulSoup(content, 'html.parser'): the tree whose markup content
\* is, among the trees known; a text without markup is one text node
BeautifulSoup(content, soups) ==
    IF \E t \in soups : Render(t) = content
    THEN CHOOSE t \in soups : Render(t) = content
    ELSE Element(RootTag, <<>>, IF content = <<>> THEN <<>> ELSE <<TextNode(content)>>)

\* request.options or ParseOptions()
DefaultOptions ==
    [extractTables |-> TRUE, extractImages |-> FALSE, enableOCR |-> FALSE,
     maxPages |-> 0, language |-> "de"]

\* A handler that lets the exception of a normalizer through
ParseReraise(e, invoked, files) ==
    HTTPException(500, <<"Internal Server Error">>, invoked, files)

\* The except Exception block of the handler: the exception e of a
\* normalizer becomes an envelope
ParseExcept(e, invoked, files) ==
    ParseResponse(FALSE, None, Some(e), invoked, files)

\* return ParseResponse(success=document.success, document=document)
Envelope(document, invoked, files) ==
    ParseResponse(document.success, Some(document), None, invoked, files)

\* What the handler makes of a call r of parse_with_docling
DoclingEnvelope(r) ==
    IF r.raised
    THEN ParseExcept(r.message, <<"parse_with_docling">>, r.files)
    ELSE Envelope(r.doc[1], <<"parse_with_docling">>, r.files)

\* The dispatch on detected_format; content is the decoded text
ParseRoute(request, file_content, content, detected_format, DOCLING_AVAILABLE_, converter_, env) ==
    IF detected_format = None
    THEN HTTPException(400, <<"Unsupported file format: ", request.filename>>,
                       <<>>, env.files)
    ELSE IF detected_format[1] \in {"md", "markdown"}
    THEN Envelope(parse_markdown_content(content, request.filename, env.now),
                  <<"parse_markdown_content">>, env.files)
    ELSE IF detected_format[1] = "txt"
    THEN Envelope(parse_txt_content(content, request.filename, env.now),
                  <<"parse_txt_content">>, env.files)
    ELSE IF detected_format[1] = "html"
    THEN Envelope(parse_html_content(content, request.filename, env.now,
                                     env.bs4, BeautifulSoup(content, env.soups)),
                  <<"parse_html_content">>, env.files)
    ELSE IF DOCLING_AVAILABLE_ /\ converter_ # None
    THEN DoclingEnvelope(parse_with_docling(
             file_content, request.filename,
             IF request.options # None THEN request.options[1] ELSE DefaultOptions,
             env.now, DOCLING_AVAILABLE_ /\ converter_ # None,
             env.backend, env.files))
    ELSE HTTPException(503, <<"Docling not available for ", detected_format[1],
                              " parsing. Install docling package.">>,
                       <<>>, env.files)

\* The handler of POST /parse from format detection on: file_content is
\* the decoded payload
ParseDispatch(request, file_content, DOCLING_AVAILABLE_, converter_, env) ==
    ParseRoute(request, file_content, Decode(file_content),
               get_format_from_filename(request.filename),
               DOCLING_AVAILABLE_, converter_, env)

\* A handler that detects the format before it checks the size
parse_format_first(request, DOCLING_AVAILABLE_, converter_, env) ==
    IF B64Raises(request.fileContent)
    THEN HTTPException(400, <<"Invalid base64 content: ", B64Message(request.fileContent)>>,
                       <<>>, env.files)
    ELSE IF get_format_from_filename(request.filename) = None
    THEN HTTPException(400, <<"Unsupported file format: ", request.filename>>,
                       <<>>, env.files)
    ELSE IF B64DecodedLen(request.fileContent) > MAX_FILE_SIZE
    THEN HTTPException(413, <<"File too large. Maximum size: ",
                              MAX_FILE_SIZE \div (1024 * 1024), "MB">>, <<>>, env.files)
    ELSE ParseDispatch(request, B64Decode(request.fileContent),
                       DOCLING_AVAILABLE_, converter_, env)

\* The handler of POST /parse.  env is the environment of the request:
\* the clock second now, whether bs4 can be imported, the trees it builds
\* (soups), the backend's behaviour, and the temporary files that exist.
parse(request, DOCLING_AVAILABLE_, converter_, env) ==
    IF B64Raises(request.fileContent)
    THEN HTTPException(400, <<"Invalid base64 content: ", B64Message(request.fileContent)>>,
                       <<>>, env.files)
    ELSE IF B64DecodedLen(request.fileContent) > MAX_FILE_SIZE
    THEN HTTPException(413, <<"File too large. Maximum size: ",
                              MAX_FILE_SIZE \div (1024 * 1024), "MB">>, <<>>, env.files)
    ELSE ParseDispatch(request, B64Decode(request.fileContent),
                       DOCLING_AVAILABLE_, converter_, env)

\* The handler of GET /formats
get_formats(DOCLING_AVAILABLE_) ==
    [supportedFormats |-> SUPPORTED_FORMATS,
     doclingFormats |-> IF DOCLING_AVAILABLE_ THEN <<"pdf", "docx", "pptx", "xlsx">>
                        ELSE <<>>,
     nativeFormats |-> <<"html", "md", "txt">>,
     doclingAvailable |-> DOCLING_AVAILABLE_]

(***************************************************************************)
(* Normalizer calls, statement by statement                                *)
(***************************************************************************)
\* return doc, from a function that touches no file
NormReturn(doc) ==
    /\ n_pc' = "returned"
    /\ n_ret' = Some(doc)
    /\ UNCHANGED <<n_call, n_exc, n_files>>

\* parse_markdown_content: the initialisation before the loop
MdBegin ==
    /\ n_pc = "start" /\ n_call.fn = "md"
    /\ n_loc' = [st |-> MdStart, lines |-> Split(n_call.content, <<"\n">>), i |-> 1]
    /\ n_pc' = "md_loop"
    /\ UNCHANGED <<n_call, n_ret, n_exc, n_files>>
    /\ UNCHANGED svars

\* parse_markdown_content: one iteration of "for line in lines"
MdLoop ==
    /\ n_pc = "md_loop"
    /\ n_loc.i <= Len(n_loc.lines)
    /\ n_loc' = [n_loc EXCEPT !.st = MdLine(@, n_loc.lines[n_loc.i]), !.i = @ + 1]
    /\ UNCHANGED <<n_call, n_pc, n_ret, n_exc, n_files>>
    /\ UNCHANGED svars

\* parse_markdown_content: after the loop, the last flush and the return
MdReturn ==
    /\ n_pc = "md_loop"
    /\ n_loc.i > Len(n_loc.lines)
    /\ \E now \in ClockSeconds :
         /\ n_loc' = [n_loc EXCEPT !.st = MdFlushLast(@)]
         /\ NormReturn(MdDocument(MdFlushLast(n_loc.st), n_call.content,
                                  n_call.filename, now))
    /\ UNCHANGED svars

\* parse_txt_content, whole
TxtParse ==
    /\ n_pc = "start" /\ n_call.fn = "txt"
    /\ \E now \in ClockSeconds :
         NormReturn(parse_txt_content(n_call.content, n_call.filename, now))
    /\ UNCHANGED n_loc
    /\ UNCHANGED svars

\* parse_html_content, whole
HtmlParse ==
    /\ n_pc = "start" /\ n_call.fn = "html"
    /\ \E now \in ClockSeconds :
         NormReturn(parse_html_content(n_call.content, n_call.filename, now,
                                       n_call.bs4, n_call.soup))
    /\ UNCHANGED n_loc
    /\ UNCHANGED svars

\* raise, with the temporary files left as they are
NormRaise(message) ==
    /\ n_pc' = "raised"
    /\ n_exc' = Some(message)
    /\ UNCHANGED <<n_call, n_ret, n_loc>>

\* parse_with_docling: the availability test and the initialisation
DlBegin ==
    /\ n_pc = "start" /\ n_call.fn = "docling"
    /\ \/ /\ ~n_call.available
          /\ NormRaise("Docling converter not available")
          /\ UNCHANGED n_files
       \/ /\ n_call.available
          /\ n_loc' = [st |-> DlStart,
                       file_ext |-> Lower(PathSuffix(n_call.filename))]
          /\ n_pc' = "dl_tmp"
          /\ UNCHANGED <<n_call, n_ret, n_exc, n_files>>
    /\ UNCHANGED svars

\* parse_with_docling: the with block that creates the temporary file and
\* writes the payload into it.  The file is created with delete=False, so
\* leaving the block closes it and does not remove it.
DlTempFile ==
    /\ n_pc = "dl_tmp"
    /\ LET tmp == TmpPath(n_files, n_loc.file_ext)
       IN  /\ n_files' = n_files \cup {tmp}
           /\ \/ /\ n_call.write_fails
                 /\ NormRaise(WriteMessage)
              \/ /\ ~n_call.write_fails
                 /\ n_loc' = [st |-> n_loc.st, file_ext |-> n_loc.file_ext,
                              tmp_path |-> tmp]
                 /\ n_pc' = "dl_convert"
                 /\ UNCHANGED <<n_call, n_ret, n_exc>>
    /\ UNCHANGED svars

\* the finally block: os.unlink(tmp_path)
DlUnlink == n_files' = n_files \ {n_loc.tmp_path}

\* parse_with_docling: converter.convert(tmp_path) and the metadata
DlConvert ==
    /\ n_pc = "dl_convert"
    /\ \/ /\ n_call.convert_fails
          /\ DlUnlink
          /\ NormRaise(ConvertMessage)
       \/ /\ ~n_call.convert_fails
          /\ n_loc' = [st |-> n_loc.st, file_ext |-> n_loc.file_ext,
                       tmp_path |-> n_loc.tmp_path, doc |-> n_call.doc,
                       i |-> 1, j |-> 1]
          /\ n_pc' = "dl_body"
          /\ UNCHANGED <<n_call, n_ret, n_exc, n_files>>
    /\ UNCHANGED svars

\* parse_with_docling: one iteration of "for item in doc.texts"
DlTextLoop ==
    /\ n_pc = "dl_body"
    /\ n_loc.i <= Len(n_loc.doc.texts)
    /\ LET item == n_loc.doc.texts[n_loc.i]
       IN  \/ /\ DlItemRaises(item)
              /\ DlUnlink
              /\ NormRaise(DlItemMessage)
           \/ /\ ~DlItemRaises(item)
              /\ n_loc' = [n_loc EXCEPT !.st = DlItem(@, item), !.i = @ + 1]
              /\ UNCHANGED <<n_call, n_pc, n_ret, n_exc, n_files>>
    /\ UNCHANGED svars

\* parse_with_docling: one iteration of "for table_idx, table in
\* enumerate(doc.tables)", entered when table extraction is enabled
DlTableLoop ==
    /\ n_pc = "dl_body"
    /\ n_loc.i > Len(n_loc.doc.texts)
    /\ n_call.options.extractTables
    /\ n_loc.j <= Len(n_loc.doc.tables)
    /\ n_loc' = [n_loc EXCEPT
                   !.st = DlTable(@, n_loc.j - 1, n_loc.doc.tables[n_loc.j]),
                   !.j = @ + 1]
    /\ UNCHANGED <<n_call, n_pc, n_ret, n_exc, n_files>>
    /\ UNCHANGED svars

\* parse_with_docling: the full text, the finally block and the return
DlReturn ==
    /\ n_pc = "dl_body"
    /\ n_loc.i > Len(n_loc.doc.texts)
    /\ ~n_call.options.extractTables \/ n_loc.j > Len(n_loc.doc.tables)
    /\ DlUnlink
    /\ \E now \in ClockSeconds :
         /\ n_pc' = "returned"
         /\ n_ret' = Some(DlDocument(n_loc.st, n_loc.doc, n_call.file_content,
                                     n_call.filename, now))
    /\ UNCHANGED <<n_call, n_exc, n_loc>>
    /\ UNCHANGED svars

MdCalls == {[fn |-> "md", content |-> c, filename |-> MdFilename] : c \in MdContents}

TxtCalls == {[fn |-> "txt", content |-> c, filename |-> TxtFilename] : c \in TxtContents}

HtmlCalls ==
    {[fn |-> "html", content |-> Render(soup), filename |-> HtmlFilename,
      bs4 |-> bs4, soup |-> soup] : soup \in HtmlSoups, bs4 \in BOOLEAN}

ParseOptions(extractTables) ==
    [extractTables |-> extractTables, extractImages |-> FALSE, enableOCR |-> FALSE,
     maxPages |-> 0, language |-> "de"]

DlCall(doc, extractTables, available, write_fails, convert_fails) ==
    [fn |-> "docling", file_content |-> DlFileContent, filename |-> DlFilename,
     options |-> ParseOptions(extractTables), doc |-> doc, available |-> available,
     write_fails |-> write_fails, convert_fails |-> convert_fails]

\* the calls of the delegated normalizer: every document with a backend
\* that works, and one document with each failure of the environment
DlCalls ==
    {DlCall(doc, x, TRUE, FALSE, FALSE) : doc \in DlDocs, x \in BOOLEAN}
    \cup {DlCall(DlDoc(<<>>, <<>>, None), TRUE, a, w, c) :
            a \in BOOLEAN, w \in BOOLEAN, c \in BOOLEAN}

\* no normalizer call is under way
NormIdle ==
    /\ n_call = [fn |-> "none"]
    /\ n_pc = "idle"
    /\ n_loc = <<>>
    /\ n_ret = None
    /\ n_exc = None
    /\ n_files = {}

\* the service is not running
ServiceOff ==
    /\ DOCLING_AVAILABLE = TRUE
    /\ converter = None
    /\ phase = "off"
    /\ bs4_installed = TRUE
    /\ clock = 1
    /\ inbox = <<>>
    /\ log = <<>>
    /\ tmp_files = {}

\* A normalizer is called, with no temporary file in the file system
NormInit ==
    /\ n_call \in MdCalls \cup TxtCalls \cup HtmlCalls \cup DlCalls
    /\ n_pc = "start"
    /\ n_loc = <<>>
    /\ n_ret = None
    /\ n_exc = None
    /\ n_files = {}
    /\ ServiceOff

NormNext ==
    \/ MdBegin
    \/ MdLoop
    \/ MdReturn
    \/ TxtParse
    \/ HtmlParse
    \/ DlBegin
    \/ DlTempFile
    \/ DlConvert
    \/ DlTextLoop
    \/ DlTableLoop
    \/ DlReturn

SpecNorm == NormInit /\ [][NormNext]_vars

(***************************************************************************)
(* The service                                                             *)
(***************************************************************************)
\* the markup clients send: a heading and a paragraph
SvcSoup ==
    Element(RootTag, <<>>, <<
        Element(TagH("1"), <<>>, <<TextNode(<<"T">>)>>),
        Element(TagP, <<>>, <<TextNode(<<"x">>)>>) >>)

\* the Markdown text clients send
SvcText == <<"#", " ", "a", "\n", "\n", "b">>

Payload(data, groups) == [data |-> data, groups |-> groups]

\* a payload that cannot be decoded, and one that decodes to more than
\* MAX_FILE_SIZE bytes
BadPayload == Payload(<<"Q", "Q", "=">>, 0)

BigPayload == Payload(<<>>, (MAX_FILE_SIZE \div 3) + 1)

FnMd == <<"a", ".", "m", "d">>

FnMdUpper == <<"a", ".", "M", "D">>

FnTxt == <<"t", ".", "t", "x", "t">>

FnHtm == <<"h", ".", "h", "t", "m">>

FnPdf == <<"r", ".", "p", "d", "f">>

FnPdfUpper == <<"r", ".", "P", "d", "F">>

FnExe == <<"x", ".", "e", "x", "e">>

FnHidden == <<".", "m", "d">>

SvcFilenames == {FnMd, FnMdUpper, FnTxt, FnHtm, FnPdf, FnPdfUpper, FnExe, FnHidden}

ParseRequest(fileContent, filename, mimeType, options) ==
    [endpoint |-> "parse", fileContent |-> fileContent, filename |-> filename,
     mimeType |-> mimeType, options |-> options]

\* the requests: the Markdown text under every filename, bytes that are
\* not UTF-8 as HTML and as PDF, markup as HTML; a MIME type hint and
\* options on some; the payloads that fail the input checks; GET /formats
SvcRequests ==
    {ParseRequest(Payload(B64Encode(Encode(SvcText)), 0), f, None, None) :
        f \in SvcFilenames}
    \cup {ParseRequest(Payload(B64Encode(<<97, 255>>), 0), f, None, None) :
            f \in {FnHtm, FnPdf}}
    \cup {ParseRequest(Payload(B64Encode(Encode(Render(SvcSoup))), 0), FnHtm, None, None)}
    \cup {ParseRequest(Payload(B64Encode(Encode(SvcText)), 0), f, Some("text/html"), None) :
            f \in {FnMd, FnPdf}}
    \cup {ParseRequest(Payload(B64Encode(<<97, 255>>), 0), FnPdf, None,
                       Some(ParseOptions(FALSE)))}
    \cup {ParseRequest(BadPayload, FnExe, None, None)}
    \cup {ParseRequest(BigPayload, f, None, None) : f \in {FnPdf, FnExe}}
    \cup {[endpoint |-> "formats"]}

Backend(write_fails, convert_fails, doc) ==
    [write_fails |-> write_fails, convert_fails |-> convert_fails, doc |-> doc]

\* what the backend may do with a request: convert a document with a
\* heading, a paragraph, a table and a table that fails; fail to convert;
\* return an item without text; or the temporary file cannot be written
SvcBackends ==
    { Backend(FALSE, FALSE,
              DlDoc(<<DlTextItem(Some(<<"T">>), <<"t", "i", "t", "l", "e">>, Some(1)),
                      DlTextItem(Some(<<"p">>), <<"t", "e", "x", "t">>, Some(2))>>,
                    <<DlFrame(<<<<"A">>>>, <<<<<<"1">>>>>>, Some(2)),
                      [kind |-> "raises", columns |-> <<>>, rows |-> <<>>,
                       page_no |-> Some(1), message |-> <<"b", "a", "d">>]>>,
                    None)),
      Backend(FALSE, TRUE, DlDoc(<<>>, <<>>, None)),
      Backend(FALSE, FALSE,
              DlDoc(<<DlTextItem(None, <<"t", "e", "x", "t">>, Some(1))>>, <<>>, None)),
      Backend(TRUE, FALSE, DlDoc(<<>>, <<>>, None)) }

\* lifespan: on startup the converter is constructed when docling was
\* imported; if the constructor raises, the converter stays None
Lifespan ==
    /\ phase = "startup"
    /\ phase' = "serving"
    /\ \/ /\ DOCLING_AVAILABLE
          /\ converter' \in {Some("DocumentConverter"), None}
       \/ /\ ~DOCLING_AVAILABLE
          /\ converter' = converter
    /\ UNCHANGED <<DOCLING_AVAILABLE, bs4_installed, clock, inbox, log, tmp_files>>
    /\ UNCHANGED nvars

\* POST /parse: the handler, whole, on the next request
Parse ==
    /\ phase = "serving"
    /\ inbox # <<>>
    /\ Head(inbox).endpoint = "parse"
    /\ \E backend \in SvcBackends :
         LET r == parse(Head(inbox), DOCLING_AVAILABLE, converter,
                        [now |-> clock, bs4 |-> bs4_installed, soups |-> {SvcSoup},
                         backend |-> backend, files |-> tmp_files])
         IN  /\ log' = Append(log, [request |-> Head(inbox), second |-> clock,
                                    files_before |-> tmp_files,
                                    backend |-> IF r.invoked = <<"parse_with_docling">>
                                                THEN Some(backend) ELSE None,
                                    reply |-> r])
             /\ tmp_files' = r.files
    /\ inbox' = Tail(inbox)
    /\ UNCHANGED <<DOCLING_AVAILABLE, converter, phase, bs4_installed, clock>>
    /\ UNCHANGED nvars

\* GET /formats: the handler, on the next request
Formats ==
    /\ phase = "serving"
    /\ inbox # <<>>
    /\ Head(inbox).endpoint = "formats"
    /\ log' = Append(log, [request |-> Head(inbox), second |-> clock,
                           files_before |-> tmp_files, backend |-> None,
                           reply |-> get_formats(DOCLING_AVAILABLE)])
    /\ inbox' = Tail(inbox)
    /\ UNCHANGED <<DOCLING_AVAILABLE, converter, phase, bs4_installed, clock, tmp_files>>
    /\ UNCHANGED nvars

\* the clock advances by a second
Tick ==
    /\ clock < MaxClock
    /\ clock' = clock + 1
    /\ UNCHANGED <<DOCLING_AVAILABLE, converter, phase, bs4_installed, inbox, log, tmp_files>>
    /\ UNCHANGED nvars

\* The module is loaded (the docling import succeeded or not, no converter
\* yet) and two requests are on their way
Init ==
    /\ DOCLING_AVAILABLE \in BOOLEAN
    /\ converter = None
    /\ phase = "startup"
    /\ bs4_installed \in BOOLEAN
    /\ clock = 1
    /\ inbox \in {<<r1, r2>> : r1 \in SvcRequests, r2 \in SvcRequests}
    /\ log = <<>>
    /\ tmp_files = {}
    /\ NormIdle

Next ==
    \/ Lifespan
    \/ Parse
    \/ Formats
    \/ Tick

Spec == Init /\ [][Next]_vars

(***************************************************************************)
(* Properties                                                              *)
(***************************************************************************)
\* the document a call of function fn has returned, if it has
Returned(fn) == n_pc = "returned" /\ n_call.fn = fn

\* C1: for every Markdown input, the blocks parse_markdown_content returns
\* carry the positions 0, 1, ..., n-1 in list order, and every heading
\* block has a headingLevel between 1 and 6.
C1_MdPositionsAndLevels ==
    Returned("md") =>
        LET blocks == n_ret[1].blocks
        IN  /\ \A k \in 1..Len(blocks) : blocks[k].position = k - 1
            /\ \A k \in 1..Len(blocks) :
                  blocks[k].type = "heading" =>
                      /\ blocks[k].headingLevel # None
                      /\ blocks[k].headingLevel[1] \in 1..6

\* C1 witness: a returned document whose blocks include a paragraph flushed
\* by a heading of seven '#', followed by a further block
C1_Witness ==
    /\ Returned("md")
    /\ Len(n_ret[1].blocks) >= 3
    /\ n_ret[1].blocks[1].type = "paragraph"
    /\ n_ret[1].blocks[2].type = "heading"
    /\ n_ret[1].blocks[2].headingLevel = Some(6)
    /\ \E k \in 1..Len(n_loc.lines) :
          Len(n_loc.lines[k]) - Len(LStripSet(n_loc.lines[k], {"#"})) > 6

(***************************************************************************)
(* Properties of the service                                               *)
(***************************************************************************)
\* the handled requests of POST /parse
ParseCalls == {i \in 1..Len(log) : log[i].request.endpoint = "parse"}

\* a request whose payload decodes to no more than 150 MiB
PassedPayloadChecks(q) ==
    /\ ~B64Raises(q.fileContent)
    /\ B64DecodedLen(q.fileContent) <= 150 * 1024 * 1024

\* the extensions of the binary formats and of the native formats
BinaryExtensions ==
    { <<".", "p", "d", "f">>, <<".", "d", "o", "c", "x">>,
      <<".", "p", "p", "t", "x">>, <<".", "x", "l", "s", "x">> }

NativeExtensions ==
    { <<".", "h", "t", "m", "l">>, <<".", "h", "t", "m">>, <<".", "m", "d">>,
      <<".", "m", "a", "r", "k", "d", "o", "w", "n">>, <<".", "t", "x", "t">> }

\* how a request ended: error or envelope, the status, the normalizer
Route(r) == <<r.kind, r.status_code, r.invoked>>

\* C2: a parse request whose payload cannot be decoded, or decodes to
\* more than 150 MiB, or whose extension is not recognised, or whose format
\* is binary while the backend is unavailable, ends in a transport-level
\* error and has invoked no normalizer; the first of these checks to fail,
\* in the order decode, size, format, backend, is the one that is reported.
C2_InputChecksBeforeNormalizers ==
    \A i \in ParseCalls :
        LET q == log[i].request
            r == log[i].reply
            ext == Lower(PathSuffix(q.filename))
            undecodable == B64Raises(q.fileContent)
            oversize == B64DecodedLen(q.fileContent) > 150 * 1024 * 1024
            unrecognised == ext \notin BinaryExtensions \cup NativeExtensions
            unavailable == /\ ext \in BinaryExtensions
                           /\ ~DOCLING_AVAILABLE \/ converter = None
            Rejected(code, detail) ==
                /\ r.kind = "http_error"
                /\ r.status_code = code
                /\ r.detail[1] = detail
                /\ r.invoked = <<>>
        IN  IF undecodable THEN Rejected(400, "Invalid base64 content: ")
            ELSE IF oversize THEN Rejected(413, "File too large. Maximum size: ")
            ELSE IF unrecognised THEN Rejected(400, "Unsupported file format: ")
            ELSE IF unavailable THEN Rejected(503, "Docling not available for ")
            ELSE TRUE

\* C2 witness: an oversize payload under an unrecognised extension was
\* rejected for its size, and a PDF was rejected for want of a backend
C2_Witness ==
    /\ Len(log) = 2
    /\ log[1].request.endpoint = "parse"
    /\ log[1].request.fileContent = BigPayload
    /\ log[1].request.filename = FnExe
    /\ log[1].reply.status_code = 413
    /\ log[2].request.endpoint = "parse"
    /\ log[2].request.filename = FnPdf
    /\ PassedPayloadChecks(log[2].request)
    /\ log[2].reply.status_code = 503
    /\ log[2].reply.invoked = <<>>

\* the exception the delegated normalizer raises with backend b, if any
BackendException(b) ==
    IF b.write_fails THEN Some(WriteMessage)
    ELSE IF b.convert_fails THEN Some(ConvertMessage)
    ELSE IF \E k \in 1..Len(b.doc.texts) : b.doc.texts[k].text = None
         THEN Some(DlItemMessage)
    ELSE None

\* C3: a parse request that reached a normalizer ends with a response
\* envelope; when the normalizer raised, the envelope has success=false,
\* error equal to the exception's message, and no document.
C3_NormalizerExceptionsBecomeEnvelopes ==
    \A i \in ParseCalls :
        LET r == log[i].reply
        IN  r.invoked # <<>> =>
                /\ r.kind = "response"
                /\ log[i].backend # None =>
                      LET e == BackendException(log[i].backend[1])
                      IN  e # None =>
                              /\ r.success = FALSE
                              /\ r.error = e
                              /\ r.document = None

\* C3 witness: the backend failed to convert a PDF and the request ended
\* with an envelope carrying the failure's message
C3_Witness ==
    \E i \in ParseCalls :
        /\ log[i].reply.invoked = <<"parse_with_docling">>
        /\ log[i].backend # None
        /\ log[i].backend[1].convert_fails
        /\ ~log[i].backend[1].write_fails
        /\ log[i].reply.kind = "response"
        /\ log[i].reply.error = Some(ConvertMessage)

\* the extension table of the format detector
C7_Table ==
    { << <<".", "p", "d", "f">>, "pdf" >>,
      << <<".", "d", "o", "c", "x">>, "docx" >>,
      << <<".", "p", "p", "t", "x">>, "pptx" >>,
      << <<".", "x", "l", "s", "x">>, "xlsx" >>,
      << <<".", "h", "t", "m", "l">>, "html" >>,
      << <<".", "h", "t", "m">>, "html" >>,
      << <<".", "m", "d">>, "md" >>,
      << <<".", "m", "a", "r", "k", "d", "o", "w", "n">>, "md" >>,
      << <<".", "t", "x", "t">>, "txt" >> }

\* the format the table gives the lower-cased final extension of filename
C7_Expected(filename) ==
    LET ext == Lower(PathSuffix(filename))
    IN  IF \E p \in C7_Table : p[1] = ext
        THEN Some((CHOOSE p \in C7_Table : p[1] = ext)[2])
        ELSE None

\* two filenames that differ at most in the letter case of the extension
C7_SameButCase(f, g) ==
    /\ Lower(PathSuffix(f)) = Lower(PathSuffix(g))
    /\ Prefix(f, Len(f) - Len(PathSuffix(f))) = Prefix(g, Len(g) - Len(PathSuffix(g)))

\* C7: the detected format is the table's entry for the lower-cased final
\* extension of the filename and no result for any other extension; the
\* handler dispatches on it; filenames that differ only in the letter case
\* of the extension, and requests that differ only in mimeType, detect and
\* dispatch identically.
C7_FormatByExtension ==
    /\ \A i \in ParseCalls :
          LET q == log[i].request
              r == log[i].reply
          IN  /\ get_format_from_filename(q.filename) = C7_Expected(q.filename)
              /\ PassedPayloadChecks(q) =>
                    /\ C7_Expected(q.filename) = None <=>
                          /\ r.kind = "http_error"
                          /\ r.detail[1] = "Unsupported file format: "
                    /\ r.document # None =>
                          Some(r.document[1].metadata.format) = C7_Expected(q.filename)
    /\ \A i, j \in ParseCalls :
          LET p == log[i].request
              q == log[j].request
          IN  C7_SameButCase(p.filename, q.filename) =>
                  /\ get_format_from_filename(p.filename)
                         = get_format_from_filename(q.filename)
                  /\ PassedPayloadChecks(p) /\ PassedPayloadChecks(q) =>
                         Route(log[i].reply) = Route(log[j].reply)

\* C7 witness: Markdown text was sent as a.MD and then as a.md with the
\* MIME type text/html, and both were parsed as Markdown
C7_Witness ==
    /\ Len(log) = 2
    /\ log[1].request.endpoint = "parse"
    /\ log[2].request.endpoint = "parse"
    /\ log[1].request.filename = FnMdUpper
    /\ log[2].request.filename = FnMd
    /\ log[1].request.mimeType = None
    /\ log[2].request.mimeType = Some("text/html")
    /\ log[1].reply.invoked = <<"parse_markdown_content">>
    /\ log[2].reply.invoked = <<"parse_markdown_content">>
    /\ log[2].reply.document[1].metadata.format = "md"

\* two handled parse requests with the same bytes under the same filename,
\* both of which produced a document
C8_SameInput(i, j) ==
    /\ log[i].reply.document # None
    /\ log[j].reply.document # None
    /\ log[i].request.filename = log[j].request.filename
    /\ B64Decode(log[i].request.fileContent) = B64Decode(log[j].request.fileContent)

\* C8: two parse calls with identical content and filename get equal
\* documentId values when they read the same clock second, and otherwise
\* documentId values with the same hash segment that differ in the
\* timestamp segment only; the timestamp segment is the clock second read.
C8_DocumentIdDeterminism ==
    \A i, j \in ParseCalls :
        C8_SameInput(i, j) =>
            LET x == log[i].reply.document[1].documentId
                y == log[j].reply.document[1].documentId
            IN  /\ Len(x) = 3 /\ Len(y) = 3
                /\ x[1] = "doc" /\ y[1] = "doc"
                /\ x[2] = log[i].second /\ y[2] = log[j].second
                /\ x[3] = y[3]
                /\ log[i].second = log[j].second => x = y
                /\ log[i].second # log[j].second => x # y

\* C8 witness: the same PDF was parsed by the backend in two different
\* seconds, under different options
C8_Witness ==
    /\ Len(log) = 2
    /\ log[1].request.endpoint = "parse"
    /\ log[2].request.endpoint = "parse"
    /\ C8_SameInput(1, 2)
    /\ log[1].request.options # log[2].request.options
    /\ log[1].reply.invoked = <<"parse_with_docling">>
    /\ log[1].second # log[2].second
    /\ log[1].reply.document[1].documentId # log[2].reply.document[1].documentId

(***************************************************************************)
(* Properties of the normalizers                                           *)
(***************************************************************************)
\* seq without its k-th element
RemoveAt(seq, k) == [i \in 1..(Len(seq) - 1) |-> IF i < k THEN seq[i] ELSE seq[i + 1]]

\* the tables whose conversion fails
FailingTables(doc) == {k \in 1..Len(doc.tables) : doc.tables[k].kind = "raises"}

\* C4: with table extraction enabled, when the conversion of exactly one
\* table fails, the result has exactly one warning, with code
\* TABLE_EXTRACTION_FAILED and severity warning, has the blocks and the
\* outline the document without that table has, and has success=true.
C4_OneFailedTableOneWarning ==
    (/\ Returned("docling")
     /\ n_call.options.extractTables
     /\ Cardinality(FailingTables(n_call.doc)) = 1) =>
        LET k == CHOOSE k \in FailingTables(n_call.doc) : TRUE
            rest == [n_call.doc EXCEPT !.tables = RemoveAt(@, k)]
            want == DlProcess(rest, n_call.options)
            d == n_ret[1]
        IN  /\ Len(d.warnings) = 1
            /\ d.warnings[1].code = "TABLE_EXTRACTION_FAILED"
            /\ d.warnings[1].severity = "warning"
            /\ want.warnings = <<>>
            /\ d.blocks = want.blocks
            /\ d.outline = want.outline
            /\ Len(d.blocks) = Len(want.blocks)
            /\ d.success = TRUE

\* C4 witness: a document with a heading, a table that fails and a table
\* that converts has been returned with the heading and the second table
C4_Witness ==
    /\ Returned("docling")
    /\ n_call.options.extractTables
    /\ Len(n_call.doc.tables) = 2
    /\ n_call.doc.tables[1].kind = "raises"
    /\ n_call.doc.tables[2].kind = "frame"
    /\ Len(n_ret[1].blocks) = 2
    /\ n_ret[1].blocks[1].type = "heading"
    /\ n_ret[1].blocks[2].type = "table"
    /\ Len(n_ret[1].warnings) = 1

\* C5: when a call of the delegated normalizer that created a temporary
\* file has returned or raised, no temporary file exists.
C5_TempFileRemoved ==
    (n_call.fn = "docling" /\ n_pc \in {"returned", "raised"}) => n_files = {}

\* C6: without the HTML-parsing capability parse_html_content returns one
\* warning, of severity error and code BEAUTIFULSOUP_MISSING, no block, an
\* empty outline, the raw input as fullText and success=false; with it,
\* success=true; success is false only when a warning has severity error.
C6_HtmlCapabilityMissing ==
    Returned("html") =>
        LET d == n_ret[1]
        IN  /\ ~n_call.bs4 =>
                  /\ Len(d.warnings) = 1
                  /\ d.warnings[1].severity = "error"
                  /\ d.warnings[1].code = "BEAUTIFULSOUP_MISSING"
                  /\ d.blocks = <<>>
                  /\ d.outline = <<>>
                  /\ d.fullText = n_call.content
                  /\ d.success = FALSE
            /\ n_call.bs4 => d.success = TRUE
            /\ d.success = FALSE =>
                  \E k \in 1..Len(d.warnings) : d.warnings[k].severity = "error"

\* C6 witness: markup with a table was parsed without the capability
C6_Witness ==
    /\ Returned("html")
    /\ ~n_call.bs4
    /\ Contains(n_call.content, <<"<", "t", "a", "b", "l", "e", ">">>)
    /\ n_ret[1].success = FALSE
    /\ n_ret[1].fullText # <<>>

\* the segments of a plain text that are not empty once trimmed, trimmed
C9_Segments(content) ==
    LET segs == Split(content, <<"\n", "\n">>)
        NonEmpty(seg) == Strip(seg) # <<>>
        kept == SelectSeq(segs, NonEmpty)
    IN  [k \in 1..Len(kept) |-> Strip(kept[k])]

\* C9: parse_txt_content returns one paragraph block per segment that is
\* non-empty after trimming, the segments obtained by splitting on the
\* double newline, in segment order with positions 0..n-1 and pageNumber
\* 1; outline and warnings are empty and success is true.
C9_TxtOneBlockPerSegment ==
    Returned("txt") =>
        LET d == n_ret[1]
            want == C9_Segments(n_call.content)
        IN  /\ Len(d.blocks) = Len(want)
            /\ \A k \in 1..Len(d.blocks) :
                  /\ d.blocks[k].type = "paragraph"
                  /\ d.blocks[k].content = want[k]
                  /\ d.blocks[k].position = k - 1
                  /\ d.blocks[k].pageNumber = Some(1)
            /\ d.outline = <<>>
            /\ d.warnings = <<>>
            /\ d.success = TRUE

\* C9 witness: a text of three segments, one of them empty once trimmed,
\* gave two blocks, the second at position 1
C9_Witness ==
    /\ Returned("txt")
    /\ Len(Split(n_call.content, <<"\n", "\n">>)) = 3
    /\ Len(n_ret[1].blocks) = 2
    /\ n_ret[1].blocks[2].position = 1

\* the table structures of a document
TablesOf(doc) ==
    {doc.blocks[k].table[1] : k \in {j \in 1..Len(doc.blocks) : doc.blocks[j].table # None}}

\* the cells of row 0, in list order
RowZero(t) ==
    LET InRowZero(c) == c.row = 0
    IN  SelectSeq(t.cells, InRowZero)

\* no two cells share (row, col); with hasHeader, the row-0 cells are
\* header cells and their contents, in column order, are the headers
TableInvariant(t) ==
    /\ \A a, b \in 1..Len(t.cells) :
          (t.cells[a].row = t.cells[b].row /\ t.cells[a].col = t.cells[b].col) => a = b
    /\ t.hasHeader =>
          /\ \A k \in 1..Len(RowZero(t)) :
                /\ RowZero(t)[k].isHeader
                /\ RowZero(t)[k].col = k - 1
          /\ [k \in 1..Len(RowZero(t)) |-> RowZero(t)[k].content] = t.headers

\* the table of the example: th A, th B / td 1, td 2
C10_Example ==
    Element(TagTable, <<>>, <<
        Element(TagTr, <<>>, <<
            Element(TagTh, <<>>, <<TextNode(<<"A">>)>>),
            Element(TagTh, <<>>, <<TextNode(<<"B">>)>>) >>),
        Element(TagTr, <<>>, <<
            Element(TagTd, <<>>, <<TextNode(<<"1">>)>>),
            Element(TagTd, <<>>, <<TextNode(<<"2">>)>>) >>) >>)

\* an HTML call whose body is one table without a table inside, which has
\* been returned as one block
C10_OneTable ==
    /\ Returned("html")
    /\ n_call.bs4
    /\ Len(n_call.soup.kids) = 1
    /\ n_call.soup.kids[1].tag = TagTable
    /\ n_call.soup.kids[1] # HtmlNestedTable
    /\ Len(n_ret[1].blocks) = 1
    /\ n_ret[1].blocks[1].table # None

\* C10: every TableStructure of the HTML normalizer and of the delegated
\* normalizer has no two cells with the same (row, col) and, when
\* hasHeader is true, row-0 cells that are header cells and whose contents
\* in column order are the headers; an HTML cell is a header cell exactly
\* when its tag is th or it lies in row 0; the example table gives
\* headers A, B, two header cells in row 0 and two other cells in row 1.
C10_TableStructure ==
    /\ (Returned("html") \/ Returned("docling")) =>
          \A t \in TablesOf(n_ret[1]) : TableInvariant(t)
    /\ Returned("html") =>
          \A t \in TablesOf(n_ret[1]) :
              /\ \A k \in 1..Len(t.cells) : t.cells[k].row = 0 => t.cells[k].isHeader
              /\ t.hasHeader <=> RowZero(t) # <<>>
    /\ C10_OneTable =>
          LET rows == n_call.soup.kids[1].kids
              t == n_ret[1].blocks[1].table[1]
          IN  /\ \A k \in 1..Len(t.cells) :
                    LET c == t.cells[k]
                    IN  c.isHeader <=>
                            \/ rows[c.row + 1].kids[c.col + 1].tag = TagTh
                            \/ c.row = 0
              /\ n_call.soup.kids[1] = C10_Example =>
                    /\ t.headers = << <<"A">>, <<"B">> >>
                    /\ t.hasHeader
                    /\ Len(t.cells) = 4
                    /\ \A k \in 1..4 : t.cells[k].isHeader <=> k <= 2
                    /\ \A k \in 1..4 : t.cells[k].row = (IF k <= 2 THEN 0 ELSE 1)

\* C10 witness: a table of two rows of td cells only has been returned
\* with its first row as headers
C10_Witness ==
    /\ C10_OneTable
    /\ Len(n_call.soup.kids[1].kids) = 2
    /\ \A r \in 1..2 :
          /\ Len(n_call.soup.kids[1].kids[r].kids) = 2
          /\ \A c \in 1..2 : n_call.soup.kids[1].kids[r].kids[c].tag = TagTd
    /\ n_ret[1].blocks[1].table[1].hasHeader
    /\ Len(n_ret[1].blocks[1].table[1].headers) = 2

(***************************************************************************)
(* Markdown: blank documents, success and warnings                         *)
(***************************************************************************)
\* a text all of whose lines are empty or whitespace-only
AllLinesBlank(content) == \A k \in 1..Len(content) : IsSpace(content[k])

\* C11: a Markdown document in which every line is empty or whitespace-only
\* yields zero blocks, an empty outline, empty warnings and success=true;
\* parse_markdown_content returns success=true with empty warnings for
\* every input.
C11_MdBlankDocumentAndSuccess ==
    Returned("md") =>
        /\ n_ret[1].success = TRUE
        /\ n_ret[1].warnings = <<>>
        /\ AllLinesBlank(n_call.content) =>
              /\ n_ret[1].blocks = <<>>
              /\ n_ret[1].outline = <<>>

\* C11 witness: a document of an empty line and a whitespace-only line has
\* been returned without blocks, and so has a document with blocks
C11_Witness ==
    /\ Returned("md")
    /\ Len(n_loc.lines) >= 2
    /\ AllLinesBlank(n_call.content)
    /\ \E k \in 1..Len(n_loc.lines) : n_loc.lines[k] = <<" ">>
    /\ \E k \in 1..Len(n_loc.lines) : n_loc.lines[k] = <<>>
    /\ n_ret[1].blocks = <<>>
    /\ n_ret[1].success

(***************************************************************************)
(* The availability flag of GET /formats                                   *)
(***************************************************************************)
\* a parse request for a PDF that passes the payload checks
PdfProbe == ParseRequest(Payload(B64Encode(<<97, 255>>), 0), FnPdf, None, None)

\* the handler would hand a PDF to the delegated normalizer
BinaryRouted ==
    \A backend \in SvcBackends :
        parse(PdfProbe, DOCLING_AVAILABLE, converter,
              [now |-> clock, bs4 |-> bs4_installed, soups |-> {SvcSoup},
               backend |-> backend, files |-> tmp_files]).invoked
            = <<"parse_with_docling">>

\* C12: after startup, the availability flag that GET /formats reports is
\* true exactly when a parse request for a binary format would be routed to
\* the delegated normalizer rather than rejected as service-unavailable;
\* after a startup in which docling imported but the converter could not be
\* constructed, the flag is false.
C12_FormatsFlagMatchesRouting ==
    \A i \in 1..Len(log) :
        log[i].request.endpoint = "formats" =>
            /\ log[i].reply.doclingAvailable <=> BinaryRouted
            /\ (DOCLING_AVAILABLE /\ converter = None) =>
                  ~log[i].reply.doclingAvailable

(***************************************************************************)
(* Outline and heading blocks                                              *)
(***************************************************************************)
IsHeadingBlock(b) == b.type = "heading"

\* C13: in every document the Markdown, HTML or delegated normalizer
\* returns, the k-th outline item has the title, level, position and
\* pageNumber of the k-th heading block, the outline is as long as there
\* are heading blocks, and no outline item has children.
C13_OutlineMatchesHeadings ==
    (Returned("md") \/ Returned("html") \/ Returned("docling")) =>
        LET outline == n_ret[1].outline
            headings == SelectSeq(n_ret[1].blocks, IsHeadingBlock)
        IN  /\ Len(outline) = Len(headings)
            /\ \A k \in 1..Len(outline) :
                  /\ outline[k].title = headings[k].content
                  /\ Some(outline[k].level) = headings[k].headingLevel
                  /\ outline[k].position = headings[k].position
                  /\ outline[k].pageNumber = headings[k].pageNumber
                  /\ outline[k].children = <<>>

\* C13 witness: the delegated normalizer has returned a list item followed
\* by a heading of level 3 on page 2, which is the only outline item
C13_Witness ==
    /\ Returned("docling")
    /\ Len(n_ret[1].blocks) = 2
    /\ n_ret[1].blocks[1].type = "list"
    /\ n_ret[1].blocks[2].type = "heading"
    /\ Len(n_ret[1].outline) = 1
    /\ n_ret[1].outline[1].position = 1
    /\ n_ret[1].outline[1].level = 3
    /\ n_ret[1].outline[1].pageNumber = Some(2)

(***************************************************************************)
(* Delegated normalizer: label to block type                               *)
(***************************************************************************)
LabelKeywords == {KwHeading, KwTitle, KwList, KwCode, KwCaption, KwFooter, KwHeader}

\* the block type a keyword stands for
KeywordType(kw) ==
    IF kw \in {KwHeading, KwTitle} THEN "heading"
    ELSE IF kw = KwList THEN "list"
    ELSE IF kw = KwCode THEN "code"
    ELSE IF kw = KwCaption THEN "caption"
    ELSE IF kw = KwFooter THEN "footer"
    ELSE "header"

\* the keywords a label contains, case-insensitively
MatchingKeywords(label) == {kw \in LabelKeywords : Contains(Lower(label), kw)}

\* the types of the longest keywords a label contains; paragraph when it
\* contains none
LongestMatchTypes(label) ==
    LET ms == MatchingKeywords(label)
    IN  IF ms = {} THEN {"paragraph"}
        ELSE {KeywordType(kw) : kw \in {m \in ms : \A o \in ms : Len(o) <= Len(m)}}

\* a text element whose text is not empty once trimmed
HasText(item) == item.text # None /\ Strip(item.text[1]) # <<>>

\* C14: in a document the delegated normalizer returns, the block of every
\* text element with non-empty text has the type of the keyword its label
\* contains (heading, title, list, code, caption, footer, header; paragraph
\* when none), a list block holding the text as its single item; when the
\* label contains several keywords, the longest decides.
C14_LongestKeywordDecidesType ==
    Returned("docling") =>
        LET items == SelectSeq(n_call.doc.texts, HasText)
            blocks == n_ret[1].blocks
        IN  /\ Len(blocks) >= Len(items)
            /\ \A k \in 1..Len(items) :
                  /\ blocks[k].type \in LongestMatchTypes(items[k].label)
                  /\ blocks[k].type = "list" =>
                        blocks[k].listItems = Some(<<blocks[k].content>>)

(***************************************************************************)
(* Markdown: the pending paragraph                                         *)
(***************************************************************************)
\* what a line of Markdown is, by its own text alone
LineKind(line) ==
    IF StartsWith(line, <<"#">>) THEN "heading"
    ELSE IF StartsWith(line, <<"BACKTICK", "BACKTICK", "BACKTICK">>) THEN "code"
    ELSE IF MdIsList(line) THEN "list"
    ELSE IF Strip(line) # <<>> THEN "plain"
    ELSE "blank"

RECURSIVE PlainRuns(_, _)
\* the maximal runs of consecutive plain lines of lines, after the run
\* that is pending
PlainRuns(lines, run) ==
    IF lines = <<>> THEN (IF run = <<>> THEN <<>> ELSE <<run>>)
    ELSE IF LineKind(Head(lines)) = "plain"
         THEN PlainRuns(Tail(lines), Append(run, Head(lines)))
    ELSE (IF run = <<>> THEN <<>> ELSE <<run>>) \o PlainRuns(Tail(lines), <<>>)

IsParagraphBlock(b) == b.type = "paragraph"

\* the paragraph block that holds the lines of buffer
IsParagraphOf(b, buffer, position) ==
    /\ b.type = "paragraph"
    /\ b.content = Strip(Join(buffer, <<"\n">>))
    /\ b.position = position

\* one iteration of the scan: a heading, fence or list line met with
\* pending lines emits their paragraph and then its own block; a blank
\* line emits the paragraph alone; a plain line joins the pending lines
C15_Step ==
    (n_pc = "md_loop" /\ n_pc' = "md_loop" /\ n_loc'.i = n_loc.i + 1) =>
        LET line == n_loc.lines[n_loc.i]
            st == n_loc.st
            buffer == st.current_paragraph
            n == Len(st.blocks)
            after == n_loc'.st
        IN  /\ SubSeq(after.blocks, 1, n) = st.blocks
            /\ LineKind(line) \in {"heading", "code", "list"} /\ buffer # <<>> =>
                  /\ Len(after.blocks) = n + 2
                  /\ IsParagraphOf(after.blocks[n + 1], buffer, st.position)
                  /\ after.blocks[n + 2].type = LineKind(line)
                  /\ after.current_paragraph = <<>>
            /\ LineKind(line) \in {"heading", "code", "list"} /\ buffer = <<>> =>
                  /\ Len(after.blocks) = n + 1
                  /\ after.blocks[n + 1].type = LineKind(line)
                  /\ after.current_paragraph = <<>>
            /\ LineKind(line) = "blank" /\ buffer # <<>> =>
                  /\ Len(after.blocks) = n + 1
                  /\ IsParagraphOf(after.blocks[n + 1], buffer, st.position)
                  /\ after.current_paragraph = <<>>
            /\ LineKind(line) = "blank" /\ buffer = <<>> => after = st
            /\ LineKind(line) = "plain" =>
                  /\ after.blocks = st.blocks
                  /\ after.current_paragraph = Append(buffer, line)

\* the end of input: the pending lines become the last paragraph
C15_End ==
    (n_pc = "md_loop" /\ n_pc' = "returned") =>
        LET st == n_loc.st
            n == Len(st.blocks)
            blocks == n_ret'[1].blocks
        IN  IF st.current_paragraph = <<>> THEN blocks = st.blocks
            ELSE /\ Len(blocks) = n + 1
                 /\ SubSeq(blocks, 1, n) = st.blocks
                 /\ IsParagraphOf(blocks[n + 1], st.current_paragraph, st.position)

\* after the scan: the paragraph blocks are the maximal runs of plain
\* lines, one block per run, in input order
C15_AfterScan ==
    Returned("md") =>
        LET paragraphs == SelectSeq(n_ret[1].blocks, IsParagraphBlock)
            runs == PlainRuns(n_loc.lines, <<>>)
        IN  /\ Len(paragraphs) = Len(runs)
            /\ \A k \in 1..Len(runs) :
                  paragraphs[k].content = Strip(Join(runs[k], <<"\n">>))

\* C15: during the Markdown scan a heading, fence or list line processed
\* while lines are pending emits one paragraph block of the pending lines
\* (joined with newline, trimmed) immediately before its own block and
\* leaves no line pending; a blank line and the end of input flush the
\* pending lines the same way.  After the scan every plain line is in
\* exactly one paragraph block, in input order, and no paragraph block
\* spans a blank line or another block.
C15_PendingParagraphFlushed ==
    /\ [][C15_Step /\ C15_End]_vars
    /\ []C15_AfterScan

\* C15 witness: two plain lines were pending when a heading was scanned,
\* and their paragraph stands immediately before the heading block
C15_Witness ==
    /\ Returned("md")
    /\ Len(n_loc.lines) = 3
    /\ LineKind(n_loc.lines[1]) = "plain"
    /\ LineKind(n_loc.lines[2]) = "plain"
    /\ LineKind(n_loc.lines[3]) = "heading"
    /\ Len(n_ret[1].blocks) = 2
    /\ n_ret[1].blocks[1].type = "paragraph"
    /\ n_ret[1].blocks[1].content = Strip(n_loc.lines[1] \o <<"\n">> \o n_loc.lines[2])
    /\ n_ret[1].blocks[2].type = "heading"

(***************************************************************************)
(* Markdown: fence lines                                                   *)
(***************************************************************************)
IsFenceLine(line) == LineKind(line) = "code"

IsHeadingLine(line) == LineKind(line) = "heading"

IsListLine(line) == LineKind(line) = "list"

IsCodeBlock(b) == b.type = "code"

IsListBlock(b) == b.type = "list"

\* the text after the three backticks, trimmed; absent when empty
FenceLanguage(line) ==
    IF Strip(SubSeq(line, 4, Len(line))) = <<>> THEN None
    ELSE Some(Strip(SubSeq(line, 4, Len(line))))

CellTexts(row) == [c \in 1..Len(row.kids) |-> Strip(GetText(row.kids[c]))]

\* parts joined with ' | ' between pipe delimiters
PipeLine(parts) == <<"|", " ">> \o Join(parts, <<" ", "|", " ">>) \o <<" ", "|">>

\* header line, separator line, and a line for each of the rows 1..rows-1
ExpectedMarkdownLines(rows) ==
    << PipeLine(CellTexts(rows[1])),
       PipeLine([c \in 1..Len(rows[1].kids) |-> <<"-", "-", "-">>]) >>
    \o [k \in 1..(Len(rows) - 1) |-> PipeLine(CellTexts(rows[k + 1]))]

\* C17: for an HTML table with at least one row and at least one cell in
\* row 0, the markdown has exactly rows+1 lines: the header line, the
\* separator line with one '---' per header column, and one line for each
\* of the rows 1..rows-1 in order, the row's cell contents joined with
\* ' | ' between pipe delimiters; the table block's content is this
\* markdown ('| A | B |', '| --- | --- |', '| 1 | 2 |' for the example).
C17_TableMarkdownLinePerRow ==
    /\ Returned("html") =>
          \A t \in TablesOf(n_ret[1]) :
              (t.rows >= 1 /\ RowZero(t) # <<>>) =>
                  Len(Split(t.markdown, <<"\n">>)) = t.rows + 1
    /\ C10_OneTable =>
          LET rows == n_call.soup.kids[1].kids
              block == n_ret[1].blocks[1]
          IN  (Len(rows) >= 1 /\ rows[1].kids # <<>>) =>
                  /\ block.table[1].markdown
                        = Join(ExpectedMarkdownLines(rows), <<"\n">>)
                  /\ block.content = block.table[1].markdown
                  /\ n_call.soup.kids[1] = C10_Example =>
                        Split(block.content, <<"\n">>)
                          = << <<"|", " ", "A", " ", "|", " ", "B", " ", "|">>,
                               <<"|", " ", "-", "-", "-", " ", "|", " ", "-", "-", "-", " ", "|">>,
                               <<"|", " ", "1", " ", "|", " ", "2", " ", "|">> >>

(***************************************************************************)
(* Delegated normalizer: positions                                         *)
(***************************************************************************)
IsFrame(table) == table.kind = "frame"

\* C18: in a document the delegated normalizer returns, the blocks carry
\* the positions 0..n-1 in list order; the text elements with non-empty
\* trimmed text have one block each, in order, with the backend's page
\* number (1 when absent); an element that is empty once trimmed has no
\* block and no position; a table that fails or cannot be exported has no
\* block and no position; the table blocks follow the text blocks on the
\* same counter.
C18_DelegatedPositions ==
    Returned("docling") =>
        LET blocks == n_ret[1].blocks
            items == SelectSeq(n_call.doc.texts, HasText)
            frames == IF n_call.options.extractTables
                      THEN SelectSeq(n_call.doc.tables, IsFrame) ELSE <<>>
        IN  /\ \A k \in 1..Len(blocks) : blocks[k].position = k - 1
            /\ Len(blocks) = Len(items) + Len(frames)
            /\ \A k \in 1..Len(items) :
                  /\ blocks[k].type # "table"
                  /\ blocks[k].content = Strip(items[k].text[1])
                  /\ blocks[k].pageNumber
                        = (IF items[k].page_no = None THEN Some(1) ELSE items[k].page_no)
            /\ \A k \in 1..Len(frames) :
                  /\ blocks[Len(items) + k].type = "table"
                  /\ blocks[Len(items) + k].table # None
                  /\ blocks[Len(items) + k].table[1].headers
                        = [c \in 1..Len(frames[k].columns) |-> frames[k].columns[c]]

\* C18 witness: an element that is empty once trimmed, an element without
\* page number, a table that fails and a table that converts have been
\* returned as a paragraph at position 0 on page 1 and a table at position 1
C18_Witness ==
    /\ Returned("docling")
    /\ n_call.options.extractTables
    /\ Len(n_call.doc.texts) = 2
    /\ ~HasText(n_call.doc.texts[1])
    /\ HasText(n_call.doc.texts[2]) /\ n_call.doc.texts[2].page_no = None
    /\ Len(n_call.doc.tables) = 2
    /\ n_call.doc.tables[1].kind = "raises"
    /\ n_call.doc.tables[2].kind = "frame"
    /\ Len(n_ret[1].blocks) = 2
    /\ n_ret[1].blocks[1].position = 0
    /\ n_ret[1].blocks[1].pageNumber = Some(1)
    /\ n_ret[1].blocks[2].type = "table"
    /\ n_ret[1].blocks[2].position = 1

=============================================================================
